---- MODULE Spec2Model ----
(***************************************************************************)
(* The planner of shorai/src/pathfind.rs: `find`, `find_inner` and         *)
(* `add_pending`, a best-first search with deferred edge validation and    *)
(* optimistic parent-skip jumps that carry a fallback edge.                *)
(*                                                                         *)
(* Nodes are small integers, costs are naturals.  The caller's closures    *)
(* (successors, is_valid_move, movement_cost, heuristic, jump_check) are   *)
(* pure functions whose values are fixed the first time the search asks    *)
(* for them and remembered from then on; success is a stateful closure.    *)
(* Option<T> is a set with at most one element: None is {} and Some(x) is  *)
(* {x}.  Indices into the visited table are 0-based as in the source.      *)
(***************************************************************************)
EXTENDS Integers, Sequences, FiniteSets, TLC

\* ------------------------------------------------------------------ bounds
NumNodes == 4
MaxCost  == 3
MaxHeur  == 2
MaxSucc  == 2

\* ------------------------------------------------------- program constants
USIZE_MAX == 2147483647

Nodes == 0 .. (NumNodes - 1)
start == 0
Costs == {1, MaxCost}

None    == {}
Some(x) == {x}
Unwrap(o) == CHOOSE x \in o : TRUE

VARIABLES
    visited,   \* FxIndexMap<N, (usize, C)>: sequence of [node, parent, cost]
    pending,   \* BinaryHeap<Pending<C, N>>: set of [est, cost, index, fallback]
    pc,        \* "loop": at `while let ... pop()`; "expand": inside the `for`; "done"
    cur,       \* locals of the running iteration: cost, p0_index, p1_index, p0_cost
    todo,      \* successors of p0 the `for` loop has not taken yet
    result,    \* Option<(Vec<N>, C)> once pc = "done"
    moves,     \* the kinds of move successors offers: the cost of each
    validM,    \* is_valid_move: {<<<<a, b>>, bool>>}
    heavy,     \* heuristic: the one node whose estimate is MaxHeur, not 0
    jumpM,     \* jump_check: {<<kind of move, "refuse" | "keep" | "rewrite">>}
    costM,     \* movement_cost: {<<distance, c>>}
    calls,     \* the closure calls of the running iteration, in order
    popped,    \* the entry popped by the running iteration and what became of it;
               \* commit: the estimated_cost of the last entry popped that was
               \* neither stale nor rejected
    edges,     \* per visited index, how its stored (parent, cost) was written
    gen,       \* what the last turn of the `for` loop made of its successor
    tests,     \* every call of success so far, in order: [node, ret]
    kern       \* a call of one of the functions of math.rs, missile.rs and
               \* pos.rs: its arguments, its position ("off" | "call" | "ret")
               \* and what it returned

vars == <<visited, pending, pc, cur, todo, result, moves, heavy, validM,
          jumpM, costM, calls, popped, edges, gen, tests, kern>>

\* no call of the collision kernel is under way
KernOff == [at |-> "off"]

\* ------------------------------------------------------ the caller's closures
Asked(memo, key) == \E e \in memo : e[1] = key
\* The values a pure closure may return for `key`: the one it already
\* returned, or any value of its range the first time.
Answers(memo, key, range) ==
    IF Asked(memo, key) THEN {e[2] : e \in {x \in memo : x[1] = key}} ELSE range

Call(f, a, r) == [fn |-> f, args |-> a, ret |-> r]

\* successors(n): like Pos::successors, one candidate per kind of move, the
\* k-th kind of move leading from n to n + k (around the ring of nodes) at
\* the cost of that kind of move
MoveSets == UNION {[1 .. d -> Costs] : d \in 0 .. MaxSucc}
Successors(mv, n) ==
    [k \in 1 .. Len(mv) |-> [node |-> (n + k) % NumNodes, mc |-> mv[k]]]

\* how far b is from a around the ring; movement_cost(a, b) depends on it
Distance(a, b) == (b + NumNodes - a) % NumNodes

\* the move_cost successors(a) supplies with b
MoveCost(mv, a, b) == mv[Distance(a, b)]

\* heuristic(n)
Heuristic(hv, n) == IF n = hv THEN MaxHeur ELSE 0

\* jump_check(p1, p0, n) depends, like Pos::jump_calc, on how n lies to p0
\* (the kind of move): refuse, keep n, or rewrite n to another node
Rewritten(n) == (n % (NumNodes - 1)) + 1
JumpKinds == {"refuse", "keep", "rewrite"}
JumpCheck(kind, n) ==
    IF kind = "refuse" THEN None
    ELSE IF kind = "keep" THEN Some(n)
    ELSE Some(Rewritten(n))

\* ----------------------------------------------------------- visited table
\* a lookup that answers with the first entry for an index outside the table
GetIndexOrFirst(vis, i) == IF i < Len(vis) THEN Some(vis[i + 1]) ELSE Some(vis[1])

\* IndexMap::get_index
GetIndex(vis, i) == IF i < Len(vis) THEN Some(vis[i + 1]) ELSE None

\* IndexMap::get_index_of / the index of Entry::Occupied
IndexOf(vis, n) == {i \in 0 .. (Len(vis) - 1) : vis[i + 1].node = n}

\* add_pending with `cost <= entry.get().1` as the guard of the second arm
AddPendingLe(vis, pend, h, n_parent_idx, cost, node, fallback) ==
    LET at  == IndexOf(vis, node)
        idx == IF at = {} THEN Len(vis) ELSE Unwrap(at)
        rec == [node |-> node, parent |-> n_parent_idx, cost |-> cost]
        new == [est |-> cost + h, cost |-> cost, index |-> idx, fallback |-> fallback]
    IN  IF at = {} THEN
            [visited |-> Append(vis, rec), pending |-> pend \cup {new},
             called |-> TRUE, index |-> Some(idx)]
        ELSE IF cost <= vis[idx + 1].cost THEN
            [visited |-> [vis EXCEPT ![idx + 1] = rec], pending |-> pend \cup {new},
             called |-> TRUE, index |-> Some(idx)]
        ELSE [visited |-> vis, pending |-> pend, called |-> FALSE, index |-> None]

\* add_pending without the second arm: a node once in the table is kept
AddPendingNoOverwrite(vis, pend, h, n_parent_idx, cost, node, fallback) ==
    LET at  == IndexOf(vis, node)
        rec == [node |-> node, parent |-> n_parent_idx, cost |-> cost]
        new == [est |-> cost + h, cost |-> cost, index |-> Len(vis), fallback |-> fallback]
    IN  IF at = {} THEN
            [visited |-> Append(vis, rec), pending |-> pend \cup {new},
             called |-> TRUE, index |-> Some(Len(vis))]
        ELSE [visited |-> vis, pending |-> pend, called |-> FALSE, index |-> None]

\* add_pending overwriting an occupied entry whatever its cost
AddPendingAlways(vis, pend, h, n_parent_idx, cost, node, fallback) ==
    LET at  == IndexOf(vis, node)
        idx == IF at = {} THEN Len(vis) ELSE Unwrap(at)
        rec == [node |-> node, parent |-> n_parent_idx, cost |-> cost]
        new == [est |-> cost + h, cost |-> cost, index |-> idx, fallback |-> fallback]
    IN  IF at = {} THEN
            [visited |-> Append(vis, rec), pending |-> pend \cup {new},
             called |-> TRUE, index |-> Some(idx)]
        ELSE
            [visited |-> [vis EXCEPT ![idx + 1] = rec], pending |-> pend \cup {new},
             called |-> TRUE, index |-> Some(idx)]

\* add_pending pushing the length of the table after the insert as the index
\* of a new entry
AddPendingLenIndex(vis, pend, h, n_parent_idx, cost, node, fallback) ==
    LET at  == IndexOf(vis, node)
        idx == IF at = {} THEN Len(vis) + 1 ELSE Unwrap(at)
        rec == [node |-> node, parent |-> n_parent_idx, cost |-> cost]
        new == [est |-> cost + h, cost |-> cost, index |-> idx, fallback |-> fallback]
    IN  IF at = {} THEN
            [visited |-> Append(vis, rec), pending |-> pend \cup {new},
             called |-> TRUE, index |-> Some(Len(vis))]
        ELSE IF cost < vis[idx + 1].cost THEN
            [visited |-> [vis EXCEPT ![idx + 1] = rec], pending |-> pend \cup {new},
             called |-> TRUE, index |-> Some(idx)]
        ELSE [visited |-> vis, pending |-> pend, called |-> FALSE, index |-> None]

\* add_pending: the match on visited.entry(node) and the push.  `h` is the
\* value heuristic returns if the match calls it.
AddPending(vis, pend, h, n_parent_idx, cost, node, fallback) ==
    LET at == IndexOf(vis, node) IN
    IF at = {} THEN
        \* Vacant: the new entry takes the next index
        [visited |-> Append(vis, [node |-> node, parent |-> n_parent_idx, cost |-> cost]),
         pending |-> pend \cup {[est |-> cost + h, cost |-> cost,
                                 index |-> Len(vis), fallback |-> fallback]},
         called  |-> TRUE,
         index   |-> Some(Len(vis))]
    ELSE LET i == Unwrap(at) IN
        IF cost < vis[i + 1].cost THEN
            \* Occupied with a higher cost: overwritten in place
            [visited |-> [vis EXCEPT ![i + 1] =
                             [node |-> node, parent |-> n_parent_idx, cost |-> cost]],
             pending |-> pend \cup {[est |-> cost + h, cost |-> cost,
                                     index |-> i, fallback |-> fallback]},
             called  |-> TRUE,
             index   |-> Some(i)]
        ELSE
            \* Occupied with a lower or equal cost: kept
            [visited |-> vis, pending |-> pend, called |-> FALSE, index |-> None]

\* ----------------------------------------------------------------- frontier
\* the comparison without the reversal: self.estimated_cost against other's
PendingCmpUnreversed(self, other) ==
    IF self.est < other.est THEN "Less"
    ELSE IF self.est > other.est THEN "Greater"
    ELSE IF self.cost < other.cost THEN "Less"
    ELSE IF self.cost > other.cost THEN "Greater"
    ELSE "Equal"

\* impl Ord for Pending: reversed on estimated_cost, then by cost
PendingCmp(self, other) ==
    IF other.est < self.est THEN "Less"
    ELSE IF other.est > self.est THEN "Greater"
    ELSE IF self.cost < other.cost THEN "Less"
    ELSE IF self.cost > other.cost THEN "Greater"
    ELSE "Equal"

\* BinaryHeap::pop returns a greatest element; which one among equals is the
\* heap's own business.
Greatest(pend) == {e \in pend : \A o \in pend : PendingCmp(o, e) # "Greater"}

\* the reconstruction of the path: walk the parent indices from index i,
\* then reverse.  `fuel` bounds the walk; a walk that does not end at an
\* index outside the table within Len(vis) steps never ends.
RECURSIVE Walk(_, _, _)
Walk(vis, i, fuel) ==
    IF GetIndex(vis, i) = None \/ fuel = 0 THEN <<>>
    ELSE <<vis[i + 1].node>> \o Walk(vis, vis[i + 1].parent, fuel - 1)

RECURSIVE Reverse(_)
Reverse(s) == IF s = <<>> THEN <<>> ELSE Append(Reverse(Tail(s)), Head(s))

RECURSIVE WalkEnds(_, _, _)
WalkEnds(vis, i, fuel) ==
    IF GetIndex(vis, i) = None THEN TRUE
    ELSE IF fuel = 0 THEN FALSE
    ELSE WalkEnds(vis, vis[i + 1].parent, fuel - 1)

\* the walk started at the parent of the popped node
BuildPathFromParent(vis, i) == Reverse(Walk(vis, vis[i + 1].parent, Len(vis)))

\* the walk without `path.reverse()`
BuildPathUnreversed(vis, i) == Walk(vis, i, Len(vis))

BuildPath(vis, i) == Reverse(Walk(vis, i, Len(vis)))

\* ---------------------------------------------------------------- behaviour
\* find with the root stored as its own parent (index 0 in place of usize::MAX)
InitRootOwnParent ==
    /\ visited = <<[node |-> start, parent |-> 0, cost |-> 0]>>
    /\ pending = {[est |-> 0, cost |-> 0, index |-> 0, fallback |-> None]}
    /\ pc = "loop"
    /\ cur = [cost |-> 0, p0_index |-> 0, p1_index |-> 0, p0_cost |-> 0]
    /\ todo = <<>>
    /\ result = None
    /\ moves \in MoveSets
    /\ heavy \in Nodes
    /\ validM = {} /\ jumpM = {} /\ costM = {}
    /\ calls = <<>>
    /\ popped = [entry |-> [est |-> 0, cost |-> 0, index |-> 0, fallback |-> None],
                 kind |-> "none", pushed |-> None, commit |-> None]
    /\ edges = <<[kind |-> "root", mc |-> 0, by |-> 0]>>
    /\ gen = None
    /\ tests = <<>>
    /\ kern = KernOff

\* find: the root is inserted at index 0 and a pending entry for it is pushed
Init ==
    /\ visited = <<[node |-> start, parent |-> USIZE_MAX, cost |-> 0]>>
    /\ pending = {[est |-> 0, cost |-> 0, index |-> 0, fallback |-> None]}
    /\ pc = "loop"
    /\ cur = [cost |-> 0, p0_index |-> 0, p1_index |-> USIZE_MAX, p0_cost |-> 0]
    /\ todo = <<>>
    /\ result = None
    /\ moves \in MoveSets
    /\ heavy \in Nodes
    /\ validM = {} /\ jumpM = {} /\ costM = {}
    /\ calls = <<>>
    /\ popped = [entry |-> [est |-> 0, cost |-> 0, index |-> 0, fallback |-> None],
                 kind |-> "none", pushed |-> None, commit |-> None]
    /\ edges = <<[kind |-> "root", mc |-> 0, by |-> 0]>>
    /\ gen = None
    /\ tests = <<>>
    /\ kern = KernOff

\* How the entry at the index add_pending wrote (if it wrote) came to be.
SetEdge(edg, r, rec) ==
    IF r.index = None THEN edg
    ELSE IF Unwrap(r.index) = Len(edg) THEN Append(edg, rec)
    ELSE [edg EXCEPT ![Unwrap(r.index) + 1] = rec]

\* no stale test at all
StaleNever(vis, e) == FALSE

\* the stale test with the comparison turned around
StaleInverted(vis, e) == vis[e.index + 1].cost > e.cost

\* `if p0_cost < cost { continue; }`
Stale(vis, e) == vis[e.index + 1].cost < e.cost

\* the lookup of the popped index instead of its parent index
ParentOfSelf(vis, e) == GetIndex(vis, e.index)

\* visited.get_index(p1_index) for the popped entry
ParentOf(vis, e) == GetIndex(vis, vis[e.index + 1].parent)

\* `let (p0_node, &(p1_index, p0_cost)) = visited.get_index(p0_index)`
Locals(vis, e) ==
    [cost |-> e.cost, p0_index |-> e.index,
     p1_index |-> vis[e.index + 1].parent, p0_cost |-> vis[e.index + 1].cost]

\* is_valid_move(p1_node, p0_node) may return v for the popped entry e
ValidAnswer(e, v) ==
    v \in Answers(validM, <<Unwrap(ParentOf(visited, e)).node, visited[e.index + 1].node>>, BOOLEAN)

ValidCall(e, v) ==
    Call("is_valid_move", <<Unwrap(ParentOf(visited, e)).node, visited[e.index + 1].node>>, v)

\* an entry goes on to the goal test whatever is_valid_move answers
CommitsUnvalidated(e) == ~Stale(visited, e)

\* The steps of an iteration up to and including the validation of the edge,
\* for an entry that goes on to the goal test.
Commits(e) ==
    /\ ~Stale(visited, e)
    /\ ParentOf(visited, e) # None => ValidAnswer(e, TRUE)

CommitCalls(e) ==
    IF ParentOf(visited, e) = None THEN <<>> ELSE <<ValidCall(e, TRUE)>>

CommitMemo(e) ==
    IF ParentOf(visited, e) = None THEN validM
    ELSE validM \cup {<<ValidCall(e, TRUE).args, TRUE>>}

\* the stale entry is looked at but stays in the heap
PopStaleKeepsEntry ==
    /\ pc = "loop"
    /\ \E e \in Greatest(pending) :
        /\ Stale(visited, e)
        /\ cur' = Locals(visited, e)
        /\ popped' = [entry |-> e, kind |-> "stale", pushed |-> None,
                      commit |-> popped.commit]
    /\ calls' = <<>>
    /\ UNCHANGED <<visited, pending, pc, todo, result, moves, validM, heavy, jumpM,
                   costM, edges, gen, tests, kern>>

\* the mutant of PopStale: the stale entry's cost is written back to the
\* table
PopStaleWritesBack ==
    /\ pc = "loop"
    /\ \E e \in Greatest(pending) :
        /\ Stale(visited, e)
        /\ pending' = pending \ {e}
        /\ visited' = [visited EXCEPT ![e.index + 1].cost = e.cost]
        /\ cur' = Locals(visited, e)
        /\ popped' = [entry |-> e, kind |-> "stale", pushed |-> None,
                      commit |-> popped.commit]
    /\ calls' = <<>>
    /\ UNCHANGED <<pc, todo, result, moves, validM, heavy, jumpM, costM,
                   edges, gen, tests, kern>>

\* pop; the stored cost is lower than the entry's: continue
PopStale ==
    /\ pc = "loop"
    /\ \E e \in Greatest(pending) :
        /\ Stale(visited, e)
        /\ pending' = pending \ {e}
        /\ cur' = Locals(visited, e)
        /\ popped' = [entry |-> e, kind |-> "stale", pushed |-> None,
                      commit |-> popped.commit]
    /\ calls' = <<>>
    /\ UNCHANGED <<visited, pc, todo, result, moves, validM, heavy, jumpM, costM,
                   edges, gen, tests, kern>>

\* pop; the move from the stored parent is not valid: the fallback, if the
\* entry carries one, goes through add_pending; continue
PopInvalid ==
    /\ pc = "loop"
    /\ \E e \in Greatest(pending) :
        /\ ~Stale(visited, e)
        /\ ParentOf(visited, e) # None
        /\ ValidAnswer(e, FALSE)
        /\ validM' = validM \cup {<<ValidCall(e, FALSE).args, FALSE>>}
        /\ cur' = Locals(visited, e)
        /\ IF e.fallback = None
           THEN /\ pending' = pending \ {e}
                /\ calls' = <<ValidCall(e, FALSE)>>
                /\ popped' = [entry |-> e, kind |-> "invalid", pushed |-> None,
                              commit |-> popped.commit]
                /\ UNCHANGED <<visited, edges>>
           ELSE LET fb == Unwrap(e.fallback)
                    h  == Heuristic(heavy, fb.node)
                    r  == AddPending(visited, pending \ {e}, h,
                                     fb.parent, fb.cost, fb.node, None)
                IN      /\ visited' = r.visited
                        /\ pending' = r.pending
                        /\ calls' = <<ValidCall(e, FALSE)>> \o
                                    (IF r.called THEN <<Call("heuristic", <<fb.node>>, h)>>
                                     ELSE <<>>)
                        /\ popped' = [entry |-> e, kind |-> "invalid", pushed |-> r.index,
                                      commit |-> popped.commit]
                        /\ edges' = SetEdge(edges, r,
                                            [kind |-> "fallback", by |-> fb.parent,
                                             mc |-> MoveCost(moves, visited[fb.parent + 1].node, fb.node)])
    /\ UNCHANGED <<pc, todo, result, moves, heavy, jumpM, costM, gen, tests, kern>>

\* pop; the edge is committed and success accepts the node: return the path
PopGoal ==
    /\ pc = "loop"
    /\ \E e \in Greatest(pending) :
        /\ Commits(e)
        /\ validM' = CommitMemo(e)
        /\ pending' = pending \ {e}
        /\ cur' = Locals(visited, e)
        /\ calls' = CommitCalls(e) \o <<Call("success", <<visited[e.index + 1].node>>, TRUE)>>
        /\ popped' = [entry |-> e, kind |-> "goal", pushed |-> None,
                      commit |-> Some(e.est)]
        /\ tests' = Append(tests, [node |-> visited[e.index + 1].node, ret |-> TRUE])
        /\ IF WalkEnds(visited, e.index, Len(visited))
           THEN /\ pc' = "done"
                /\ result' = Some([path |-> BuildPath(visited, e.index), cost |-> e.cost])
           ELSE /\ pc' = "hang"
                /\ result' = None
    /\ UNCHANGED <<visited, todo, moves, heavy, jumpM, costM, edges, gen, kern>>

\* the node is expanded although success accepts it
PopExpandAccepted ==
    /\ pc = "loop"
    /\ \E e \in Greatest(pending) :
        /\ Commits(e)
        /\ validM' = CommitMemo(e)
        /\ pending' = pending \ {e}
        /\ cur' = Locals(visited, e)
        /\ popped' = [entry |-> e, kind |-> "expand", pushed |-> None,
                      commit |-> Some(e.est)]
        /\ tests' = Append(tests, [node |-> visited[e.index + 1].node, ret |-> TRUE])
        /\ LET n == visited[e.index + 1].node IN
           LET sl == Successors(moves, n) IN
               /\ todo' = sl
               /\ pc' = IF sl = <<>> THEN "loop" ELSE "expand"
               /\ calls' = CommitCalls(e) \o <<Call("success", <<n>>, TRUE),
                                                Call("successors", <<n>>, sl)>>
    /\ UNCHANGED <<visited, result, moves, heavy, jumpM, costM, edges, gen, kern>>

\* pop; the edge is committed, success refuses the node: successors is called
PopExpand ==
    /\ pc = "loop"
    /\ \E e \in Greatest(pending) :
        /\ Commits(e)
        /\ validM' = CommitMemo(e)
        /\ pending' = pending \ {e}
        /\ cur' = Locals(visited, e)
        /\ popped' = [entry |-> e, kind |-> "expand", pushed |-> None,
                      commit |-> Some(e.est)]
        /\ tests' = Append(tests, [node |-> visited[e.index + 1].node, ret |-> FALSE])
        /\ LET n == visited[e.index + 1].node IN
           LET sl == Successors(moves, n) IN
               /\ todo' = sl
               /\ pc' = IF sl = <<>> THEN "loop" ELSE "expand"
               /\ calls' = CommitCalls(e) \o <<Call("success", <<n>>, FALSE),
                                                Call("successors", <<n>>, sl)>>
    /\ UNCHANGED <<visited, result, moves, heavy, jumpM, costM, edges, gen, kern>>

\* the default edge carrying a fallback of its own
DefaultEdgeWithBackup(c, s) ==
    [idx |-> c.p0_index, cost |-> c.cost + s.mc, node |-> s.node,
     fallback |-> Some([parent |-> c.p0_index, cost |-> c.cost + s.mc, node |-> s.node])]

\* the default edge priced without the cost of the node it leaves
DefaultEdgeFromZero(c, s) ==
    [idx |-> c.p0_index, cost |-> s.mc, node |-> s.node, fallback |-> None]

\* `let (mut idx, mut cost, mut fallback) = (p0_index, cost + move_cost, None)`
DefaultEdge(c, s) ==
    [idx |-> c.p0_index, cost |-> c.cost + s.mc, node |-> s.node, fallback |-> None]

\* `let backup = Fallback { parent: p0_index, cost: cost + move_cost, node }`,
\* where `cost` is the variable the line above has just set to cost + move_cost
Backup(c, s) ==
    [parent |-> c.p0_index, cost |-> DefaultEdge(c, s).cost + s.mc, node |-> s.node]

\* the jump keeps p0 as the parent
JumpEdgeFromP0(vis, c, s, jump_node, move_cost) ==
    [idx |-> c.p0_index, cost |-> vis[c.p1_index + 1].cost + move_cost,
     node |-> jump_node, fallback |-> Some(Backup(c, s))]

\* the jump priced without the stored cost of p1
JumpEdgeUnpriced(vis, c, s, jump_node, move_cost) ==
    [idx |-> c.p1_index, cost |-> move_cost,
     node |-> jump_node, fallback |-> Some(Backup(c, s))]

\* the jump priced with the move_cost of successors
JumpEdgeMoveCost(vis, c, s, jump_node, move_cost) ==
    [idx |-> c.p1_index, cost |-> vis[c.p1_index + 1].cost + s.mc,
     node |-> jump_node, fallback |-> Some(Backup(c, s))]

\* the jump: p1 becomes the parent, at p1's stored cost plus movement_cost
JumpEdge(vis, c, s, jump_node, move_cost) ==
    [idx |-> c.p1_index, cost |-> vis[c.p1_index + 1].cost + move_cost,
     node |-> jump_node, fallback |-> Some(Backup(c, s))]

\* one turn of `for (mut node, move_cost) in successors(p0_node)`
ExpandStep ==
    /\ pc = "expand"
    /\ LET s  == Head(todo)
           p0 == visited[cur.p0_index + 1].node
           p1 == GetIndex(visited, cur.p1_index)
           jk == <<Unwrap(p1).node, p0, s.node>>
       IN
       \E kind \in (IF p1 = None THEN {"refuse"}
                    ELSE Answers(jumpM, Distance(p0, s.node), JumpKinds)) :
       LET j == JumpCheck(kind, s.node) IN
       \E mv \in (IF j = None THEN {0}
                  ELSE Answers(costM, Distance(Unwrap(p1).node, Unwrap(j)), Costs)) :
       LET cand == IF j = None THEN DefaultEdge(cur, s)
                   ELSE JumpEdge(visited, cur, s, Unwrap(j), mv)
           h    == Heuristic(heavy, cand.node)
           r    == AddPending(visited, pending, h, cand.idx, cand.cost, cand.node, cand.fallback)
       IN
           /\ visited' = r.visited
           /\ pending' = r.pending
           /\ jumpM' = IF p1 = None THEN jumpM
                       ELSE jumpM \cup {<<Distance(p0, s.node), kind>>}
           /\ costM' = IF j = None THEN costM
                       ELSE costM \cup {<<Distance(Unwrap(p1).node, Unwrap(j)), mv>>}
           /\ calls' = calls
                \o (IF p1 = None THEN <<>> ELSE <<Call("jump_check", jk, j)>>)
                \o (IF j = None THEN <<>>
                    ELSE <<Call("movement_cost", <<Unwrap(p1).node, Unwrap(j)>>, mv)>>)
                \o (IF r.called THEN <<Call("heuristic", <<cand.node>>, h)>> ELSE <<>>)
           /\ edges' = SetEdge(edges, r,
                               IF j = None
                               THEN [kind |-> "normal", mc |-> s.mc, by |-> cand.idx]
                               ELSE [kind |-> "shortcut", mc |-> mv, by |-> cand.idx])
           /\ gen' = Some([succ |-> s, jump |-> j, cand |-> cand, wrote |-> r.index,
                           p1_cost |-> IF p1 = None THEN 0 ELSE Unwrap(p1).cost,
                           move_cost |-> mv])
    /\ todo' = Tail(todo)
    /\ pc' = IF Tail(todo) = <<>> THEN "loop" ELSE "expand"
    /\ UNCHANGED <<cur, result, moves, heavy, validM, popped, tests, kern>>

\* `None` returned from the head of the loop whatever the frontier holds
ReturnNoneEarly ==
    /\ pc = "loop"
    /\ pc' = "done"
    /\ result' = None
    /\ UNCHANGED <<visited, pending, cur, todo, moves, heavy, validM, jumpM,
                   costM, calls, popped, edges, gen, tests, kern>>

\* the frontier is empty: `None`
ReturnNone ==
    /\ pc = "loop"
    /\ pending = {}
    /\ pc' = "done"
    /\ result' = None
    /\ UNCHANGED <<visited, pending, cur, todo, moves, heavy, validM, jumpM,
                   costM, calls, popped, edges, gen, tests, kern>>

Next ==
    \/ PopStale
    \/ PopInvalid
    \/ PopGoal
    \/ PopExpand
    \/ ExpandStep
    \/ ReturnNone

Spec == Init /\ [][Next]_vars

\* find runs in one thread from its call to its return: while a step of the
\* loop can be taken, one is taken
FairSpec == Init /\ [][Next]_vars /\ WF_vars(Next)

\* ------------------------------------------------------------------ claims
Returned == pc = "done" /\ result # None
ThePath  == Unwrap(result).path
TheCost  == Unwrap(result).cost
Pairs(path) == {<<path[i], path[i + 1]>> : i \in 1 .. (Len(path) - 1)}
Last(s) == s[Len(s)]

\* C1 -- validation completeness: no two adjacent nodes of a returned path
\* are a move for which is_valid_move answered false.
C1_ValidationCompleteness ==
    Returned => \A pr \in Pairs(ThePath) : <<pr, FALSE>> \notin validM

\* The cost of the edges of the path that ends at index i, each edge at the
\* cost of the write that stored it: movement_cost for a shortcut, the
\* move_cost of successors for a normal or a fallback edge.
RECURSIVE SumEdges(_, _, _, _)
SumEdges(vis, edg, i, fuel) ==
    IF fuel = 0 \/ vis[i + 1].parent >= Len(vis) THEN 0
    ELSE edg[i + 1].mc + SumEdges(vis, edg, vis[i + 1].parent, fuel - 1)

\* C2 -- path cost: the returned cost is the sum of the costs of the edges of
\* the returned path.
C2_PathCost ==
    Returned => TheCost = SumEdges(visited, edges, popped.entry.index, Len(visited))

\* a step of PopInvalid: a pop that leaves the loop at its head with the
\* popped edge rejected
InvalidStep == pc = "loop" /\ pc' = "loop" /\ popped'.kind = "invalid"
\* a step of ExpandStep
ForStep == pc = "expand"
\* a step of PopStale
StaleStep == pc = "loop" /\ pc' = "loop" /\ popped'.kind = "stale"

NoCall(cs, fns) == \A k \in 1 .. Len(cs) : cs[k].fn \notin fns

\* C3 as stated -- whenever a popped, non-stale entry that carries a fallback
\* fails is_valid_move, a pending entry for the fallback (its node, parent and
\* cost, no further fallback) is on the frontier at the end of that iteration,
\* and the rejected node is not expanded.
C3_FallbackPushed ==
    (pc = "loop" /\ popped.kind = "invalid" /\ popped.entry.fallback # None) =>
        LET fb == Unwrap(popped.entry.fallback) IN
        /\ popped.pushed # None
        /\ \E e \in pending :
              /\ e.cost = fb.cost /\ e.fallback = None
              /\ visited[e.index + 1].node = fb.node
              /\ visited[e.index + 1].parent = fb.parent
        /\ NoCall(calls, {"success", "successors"})

\* What find_inner does with the fallback of a rejected entry (lines 180-182
\* through add_pending): a pending entry for it (fallback node, parent and
\* cost, no further fallback) is pushed iff the fallback node is not in the
\* visited table or the fallback cost is strictly less than the cost stored
\* for it; otherwise only the popped entry leaves the frontier and the safe
\* edge is lost.  Either way the rejected node is not goal-tested or expanded
\* from that entry.
C3_FallbackOffered ==
    [][(InvalidStep /\ popped'.entry.fallback # None) =>
        LET e  == popped'.entry
            fb == Unwrap(e.fallback)
            at == IndexOf(visited, fb.node)
            accept == at = {} \/ fb.cost < visited[Unwrap(at) + 1].cost
            idx == IF at = {} THEN Len(visited) ELSE Unwrap(at)
            new == [est |-> fb.cost + Heuristic(heavy, fb.node), cost |-> fb.cost,
                    index |-> idx, fallback |-> None]
        IN  /\ e \in pending
            /\ accept => /\ pending' = (pending \ {e}) \cup {new}
                         /\ new \notin pending
                         /\ Len(visited') > idx
                         /\ visited'[idx + 1] =
                              [node |-> fb.node, parent |-> fb.parent, cost |-> fb.cost]
            /\ ~accept => /\ pending' = pending \ {e}
                          /\ visited' = visited
            /\ todo' = todo
            /\ NoCall(calls', {"success", "successors"})
      ]_vars

\* a rejected entry whose fallback did reach the frontier
C3_Witness ==
    /\ pc = "loop" /\ popped.kind = "invalid"
    /\ popped.entry.fallback # None /\ popped.pushed # None

\* C4 -- a returned path is not empty, starts at the start node and ends at
\* the popped node, on which success has just answered true for the first
\* time in the search.
C4_PathEnds ==
    Returned =>
        /\ Len(ThePath) >= 1
        /\ ThePath[1] = start
        /\ popped.kind = "goal"
        /\ Last(ThePath) = visited[popped.entry.index + 1].node
        /\ Len(tests) >= 1
        /\ Last(tests) = [node |-> Last(ThePath), ret |-> TRUE]
        /\ \A k \in 1 .. (Len(tests) - 1) : ~tests[k].ret

C4_Witness == Returned /\ Len(ThePath) >= 3

\* C5 -- parent link integrity: every node of a returned path but the first
\* is stored with a parent index at which the table holds the node before it
\* in the path; the first is the root, stored with the sentinel.
C5_ParentLinks ==
    Returned =>
        /\ \A k \in 2 .. Len(ThePath) :
              \E i \in IndexOf(visited, ThePath[k]) :
                  /\ visited[i + 1].parent < Len(visited)
                  /\ visited[visited[i + 1].parent + 1].node = ThePath[k - 1]
        /\ \E i \in IndexOf(visited, ThePath[1]) : visited[i + 1].parent = USIZE_MAX

C5_Witness ==
    /\ Returned /\ Len(ThePath) >= 3
    /\ \E k \in 1 .. Len(edges) : edges[k].kind = "fallback" /\ visited[k].node = Last(ThePath)

\* C6 -- staleness safety: an entry popped with a cost above the cost stored
\* for its node is discarded without any closure being called, and only such
\* an entry is; stored costs only go down and every write of a cheaper cost
\* leaves all older pending entries of that node above the stored cost.
C6_StalenessSafety ==
    /\ [](/\ popped.kind \in {"invalid", "goal", "expand"} => cur.cost <= cur.p0_cost
          /\ popped.kind = "stale" => /\ cur.p0_cost < cur.cost
                                      /\ calls = <<>>
                                      /\ pc \in {"loop", "done"})
    /\ [][/\ \A i \in 1 .. Len(visited) :
                /\ Len(visited') >= i
                /\ visited'[i].cost <= visited[i].cost
                /\ visited'[i].cost < visited[i].cost =>
                      \A e \in pending : e.index = i - 1 => visited'[i].cost < e.cost
          /\ StaleStep =>
                /\ visited' = visited
                /\ \E e \in pending : pending' = pending \ {e} /\ e = popped'.entry
         ]_vars

C6_Witness ==
    /\ popped.kind = "stale"
    /\ visited[popped.entry.index + 1].cost < popped.entry.cost
    /\ pending # {}

\* C7 -- deferred validation: is_valid_move is the first call of an iteration
\* or is not called in it; it is called for a popped entry that is not stale,
\* on the node at the parent index stored for the popped node and the popped
\* node; no turn of the successor loop calls it.
C7_DeferredValidation ==
    \A k \in 1 .. Len(calls) :
        calls[k].fn = "is_valid_move" =>
            /\ k = 1
            /\ popped.kind \in {"invalid", "goal", "expand"}
            /\ cur.cost <= cur.p0_cost
            /\ cur.p1_index < Len(visited)
            /\ calls[k].args = <<visited[cur.p1_index + 1].node,
                                 visited[cur.p0_index + 1].node>>

C7_Witness ==
    /\ pc = "expand" /\ Len(calls) >= 5
    /\ calls[1].fn = "is_valid_move"
    /\ calls[Len(calls)].fn = "heuristic"

\* C8 -- the fallback built for a shortcut is the default edge: parent = the
\* index of P0, cost = cost0 + mc, node = the successor before rewriting.
C8_FallbackIsDefaultEdge ==
    (gen # None /\ Unwrap(gen).jump # None) =>
        Unwrap(gen).cand.fallback =
            Some([parent |-> cur.p0_index, cost |-> cur.cost + Unwrap(gen).succ.mc,
                  node |-> Unwrap(gen).succ.node])

\* the value movement_cost has returned for (a, b)
MovementCost(memo, a, b) == Unwrap({e[2] : e \in {x \in memo : x[1] = Distance(a, b)}})

\* C9 -- a successor that jump_check accepts as N' is submitted as node N'
\* with parent index = the index of P1 and cost = the cost stored for P1 at
\* that moment + movement_cost(P1, N').
C9_ShortcutCandidate ==
    [][(ForStep /\ gen' # None /\ Unwrap(gen').jump # None) =>
        LET g  == Unwrap(gen')
            jn == Unwrap(g.jump)
            p1 == visited[cur.p1_index + 1]
            at == IndexOf(visited, jn)
        IN  /\ cur.p1_index < Len(visited)
            /\ g.cand.node = jn
            /\ g.cand.idx = cur.p1_index
            /\ g.cand.cost = p1.cost + MovementCost(costM', p1.node, jn)
            /\ (at = {} \/ g.cand.cost < visited[Unwrap(at) + 1].cost) =>
                  \E i \in IndexOf(visited', jn) :
                      /\ visited'[i + 1].parent = cur.p1_index
                      /\ visited'[i + 1].cost = p1.cost + MovementCost(costM', p1.node, jn)
      ]_vars

C9_Witness ==
    /\ gen # None /\ Unwrap(gen).jump # None
    /\ Unwrap(gen).move_cost # Unwrap(gen).succ.mc
    /\ Unwrap(gen).p1_cost > 0

\* What add_pending(n_parent_idx, cost, node, fallback) is to do between
\* (vis, pend) and (vis2, pend2); `added` are the closure calls it made.
Policy(vis, pend, vis2, pend2, added, n_parent_idx, cost, node, fallback) ==
    LET at  == IndexOf(vis, node)
        rec == [node |-> node, parent |-> n_parent_idx, cost |-> cost]
        Pushed(i) ==
            /\ Cardinality(pend2) = Cardinality(pend) + 1
            /\ pend \subseteq pend2
            /\ \A e \in pend2 \ pend :
                  /\ e.index = i /\ e.cost = cost /\ e.fallback = fallback
                  /\ e.est = cost + Heuristic(heavy, node)
    IN  IF at = {} THEN
            vis2 = Append(vis, rec) /\ Pushed(Len(vis))
        ELSE IF cost < vis[Unwrap(at) + 1].cost THEN
            /\ vis2 = [vis EXCEPT ![Unwrap(at) + 1] = rec]
            /\ Pushed(Unwrap(at))
        ELSE
            vis2 = vis /\ pend2 = pend /\ NoCall(added, {"heuristic"})

\* C10 -- the update policy of add_pending, at both places that call it: a
\* new node is inserted and pushed, a strictly cheaper candidate overwrites
\* parent and cost in place and is pushed, any other candidate changes
\* neither the table nor the frontier and does not call heuristic.
C10_UpdatePolicy ==
    [][/\ ForStep =>
            LET c == Unwrap(gen').cand IN
            Policy(visited, pending, visited', pending',
                   SubSeq(calls', Len(calls) + 1, Len(calls')),
                   c.idx, c.cost, c.node, c.fallback)
       /\ (InvalidStep /\ popped'.entry.fallback # None) =>
            LET fb == Unwrap(popped'.entry.fallback) IN
            Policy(visited, pending \ {popped'.entry}, visited', pending', calls',
                   fb.parent, fb.cost, fb.node, None)
      ]_vars

C10_Witness ==
    /\ gen # None /\ Unwrap(gen).wrote # None
    /\ Unwrap(Unwrap(gen).wrote) < Len(visited) - 1
    /\ pc = "expand"

\* C11 -- during a search the table never shrinks, every node stays at the
\* index it was inserted at (and has no second index), and an entry that
\* changes changes to a strictly lower cost.
C11_TableStable ==
    /\ [](\A n \in Nodes : Cardinality(IndexOf(visited, n)) <= 1)
    /\ [][/\ Len(visited') >= Len(visited)
          /\ \A i \in 1 .. Len(visited) :
                /\ visited'[i].node = visited[i].node
                /\ visited'[i] # visited[i] => visited'[i].cost < visited[i].cost
         ]_vars

\* the table holds every node and the entry of the node just popped has been
\* overwritten, by a shortcut, with a cost below that of the popped entry
C11_Witness ==
    /\ Len(visited) = NumNodes
    /\ popped.kind = "stale"
    /\ visited[popped.entry.index + 1].cost < popped.entry.cost
    /\ edges[popped.entry.index + 1].kind = "shortcut"

\* a step that pops an entry: any step taken at the head of the loop while
\* the frontier is not empty
PopStep == pc = "loop" /\ pending # {}

\* C12 -- frontier ordering: the entry popped has the smallest estimated_cost
\* of all pending entries and, among those with that estimated_cost, the
\* largest cost.
C12_FrontierOrdering ==
    [][PopStep =>
        LET e == popped'.entry IN
        /\ e \in pending
        /\ e \notin pending'
        /\ \A o \in pending :
              /\ e.est <= o.est
              /\ o.est = e.est => o.cost <= e.cost
      ]_vars

\* an entry was popped ahead of one with the same estimated_cost and a lower
\* cost and of one with a higher estimated_cost
C12_Witness ==
    /\ pc = "loop" /\ popped.kind # "none" /\ popped.pushed = None
    /\ \E o \in pending : o.est = popped.entry.est /\ o.cost < popped.entry.cost
    /\ \E o \in pending : o.est > popped.entry.est

\* success has returned true on a committed popped node
Accepted == \E k \in 1 .. Len(tests) : tests[k].ret

\* C13 -- find returns None iff the frontier has become empty without success
\* having returned true, and Some iff success has returned true on a popped
\* node whose entry was not stale and whose edge was valid; the search goes
\* on as long as neither is the case.
C13_NoneIffExhausted ==
    /\ pc = "done" =>
          /\ result = None <=> (pending = {} /\ ~Accepted)
          /\ result # None <=> Accepted
          /\ Accepted =>
                /\ popped.kind = "goal"
                /\ cur.cost <= cur.p0_cost
                /\ Last(tests).node = visited[popped.entry.index + 1].node
                /\ cur.p1_index < Len(visited) =>
                      <<<<visited[cur.p1_index + 1].node, Last(tests).node>>, TRUE>> \in validM
    /\ pc # "done" => ~Accepted /\ result = None
    /\ (pc = "loop" /\ pending = {}) => ENABLED ReturnNone

\* None returned after several nodes were expanded and an edge was rejected
C13_Witness ==
    /\ pc = "done" /\ result = None
    /\ Len(tests) >= 3
    /\ \E v \in validM : ~v[2]

\* the heuristic never drops by more than the cost of the move along a move
\* successors offers
Consistent == \A k \in 1 .. Len(moves) : MaxHeur <= moves[k]

\* jump_check has returned None whenever it was called
NoShortcut == \A j \in jumpM : j[2] = "refuse"

\* C14 as stated -- monotone progress: no pending entry has an estimated_cost
\* below that of the last entry popped that passed the stale test and the
\* validation.  No node has been accepted by success, so the heuristic
\* overestimates nothing.
C14_MonotoneProgress ==
    (popped.commit # None /\ ~Accepted) =>
        \A o \in pending : o.est >= Unwrap(popped.commit)

\* C14 amended -- the same, for a search in which jump_check returns None for
\* every successor and the heuristic is consistent with the move costs of
\* successors.
C14_MonotoneWithoutShortcuts ==
    (popped.commit # None /\ NoShortcut /\ Consistent) =>
        \A o \in pending : o.est >= Unwrap(popped.commit)

\* jump_check has been asked and has refused, the heuristic has counted and a
\* later entry has been discarded with the frontier still holding entries
C14_Witness ==
    /\ NoShortcut /\ Consistent /\ jumpM # {}
    /\ popped.commit # None
    /\ popped.kind \in {"stale", "invalid"}
    /\ \E o \in pending : o.est > o.cost
    /\ \E o \in pending : o.est > Unwrap(popped.commit)

\* C15 -- the root sits at index 0 with cost zero and the sentinel parent for
\* the whole search; it is the first entry popped, its iteration calls
\* success(start) first and never is_valid_move; is_valid_move is never
\* called with the root as the target of the move; nothing is generated
\* before success(start) has answered.
C15_RootBypassesValidation ==
    /\ visited[1] = [node |-> start, parent |-> USIZE_MAX, cost |-> 0]
    /\ GetIndex(visited, visited[1].parent) = None
    /\ \A v \in validM : v[1][2] # start
    /\ popped.kind = "none" =>
          /\ pending = {[est |-> 0, cost |-> 0, index |-> 0, fallback |-> None]}
          /\ Len(visited) = 1 /\ tests = <<>> /\ calls = <<>>
    /\ popped.kind # "none" => /\ tests # <<>>
                               /\ tests[1].node = start
    /\ (popped.kind # "none" /\ popped.entry.index = 0) =>
          /\ calls # <<>>
          /\ calls[1].fn = "success" /\ calls[1].args = <<start>>
          /\ NoCall(calls, {"is_valid_move", "jump_check", "movement_cost"})
          /\ \A k \in 1 .. Len(calls) : calls[k].fn = "successors" => k = 2

\* the root came back as the successor of a later node and was not written
C15_Witness ==
    /\ gen # None
    /\ Unwrap(gen).cand.node = start
    /\ Unwrap(gen).wrote = None
    /\ Len(tests) >= 2
    /\ validM # {}

\* how many of the calls cs are calls of fn
CountCalls(cs, fn) == Cardinality({k \in 1 .. Len(cs) : cs[k].fn = fn})

\* the running iteration has popped the root / a stale entry
RootPopped  == cur.p0_index = 0
StalePopped == cur.p0_cost < cur.cost

\* C16 -- an iteration calls is_valid_move at most once: not at all for a
\* stale entry or for the root, exactly once for any other popped entry.
C16_ValidatedOnce ==
    LET n == CountCalls(calls, "is_valid_move") IN
    /\ n <= 1
    /\ popped.kind = "none" => n = 0
    /\ (StalePopped \/ RootPopped) => n = 0
    /\ (popped.kind # "none" /\ ~StalePopped /\ ~RootPopped) => n = 1

\* an entry without fallback was rejected on its one call, the table full
C16_Witness ==
    /\ popped.kind = "invalid" /\ popped.entry.fallback = None
    /\ CountCalls(calls, "is_valid_move") = 1
    /\ Len(visited) = NumNodes

\* the positions in cs of the calls of fn
CallsOf(cs, fn) == {k \in 1 .. Len(cs) : cs[k].fn = fn}

\* C17 -- shortcut callbacks: while a node with a real parent is expanded,
\* jump_check is called exactly once for each successor taken so far, on
\* (P1, P0, that successor), in order; it is not called while the root is
\* expanded nor in an iteration that expands nothing; movement_cost is
\* called exactly once, right after, on (P1, N') for each call of jump_check
\* that returned a node N', and never otherwise.
C17_ShortcutCallbacks ==
    LET jc == CallsOf(calls, "jump_check")
        mc == CallsOf(calls, "movement_cost")
        sc == CallsOf(calls, "successors")
    IN  /\ popped.kind # "expand" => jc = {} /\ mc = {}
        /\ popped.kind = "expand" =>
              /\ Cardinality(sc) = 1
              /\ LET sl    == calls[Unwrap(sc)].ret
                     taken == Len(sl) - Len(todo)
                     p0    == visited[cur.p0_index + 1].node
                 IN  /\ RootPopped => jc = {}
                     /\ ~RootPopped =>
                           /\ Cardinality(jc) = taken
                           /\ \A i \in 1 .. taken :
                                 \E k \in jc :
                                     /\ Cardinality({j \in jc : j < k}) = i - 1
                                     /\ calls[k].args =
                                          <<visited[cur.p1_index + 1].node, p0, sl[i].node>>
              /\ Cardinality(mc) = Cardinality({k \in jc : calls[k].ret # None})
              /\ \A k \in jc : calls[k].ret # None =>
                    /\ k + 1 \in mc
                    /\ calls[k + 1].args =
                         <<visited[cur.p1_index + 1].node, Unwrap(calls[k].ret)>>

\* one expansion in which jump_check refused one successor and returned a
\* node for another
C17_Witness ==
    /\ popped.kind = "expand" /\ pc = "loop"
    /\ Cardinality(CallsOf(calls, "jump_check")) = 2
    /\ Cardinality(CallsOf(calls, "movement_cost")) = 1

\* the entry popped by the running iteration is not stale and is the root or
\* the move from its stored parent has not been refused by is_valid_move
Committed ==
    /\ popped.kind # "none"
    /\ ~StalePopped
    /\ ~RootPopped =>
          <<<<visited[cur.p1_index + 1].node, visited[cur.p0_index + 1].node>>, FALSE>>
              \notin validM

\* C18 -- commit protocol: an iteration whose popped entry is committed calls
\* success exactly once, on the popped node, and calls successors exactly
\* once, on that node and after success, iff success returned false; an
\* iteration whose popped entry is stale or rejected calls neither.
C18_CommitProtocol ==
    LET su == CallsOf(calls, "success")
        sc == CallsOf(calls, "successors")
        p0 == visited[cur.p0_index + 1].node
    IN  /\ ~Committed => su = {} /\ sc = {}
        /\ Committed =>
              /\ Cardinality(su) = 1
              /\ calls[Unwrap(su)].args = <<p0>>
              /\ Cardinality(sc) = IF calls[Unwrap(su)].ret THEN 0 ELSE 1
              /\ \A k \in sc : calls[k].args = <<p0>> /\ k = Unwrap(su) + 1
              /\ calls[Unwrap(su)].ret <=> popped.kind = "goal"

\* a node reached over a validated edge was refused by success and expanded
\* into at least two successors, after an earlier entry was rejected
C18_Witness ==
    /\ Committed /\ ~RootPopped /\ popped.kind = "expand" /\ pc = "loop"
    /\ \E k \in CallsOf(calls, "successors") : Len(calls[k].ret) >= 2
    /\ \E v \in validM : ~v[2]

\* ---------------------------------------------------------- collision kernel
\* math::collides_within_time on Vec2 arguments with integer components.
\* Every f32 operation of the function is exact on the arguments drawn here:
\* the sums and products are small integers, and the two divisions are by c0,
\* which is 0 or a power of two (Exact).  The quotients p = c1 / c0 and
\* q = c2 / c0 are kept as their numerators, d, p_sq_signed, time_sq and value
\* as their numerators over c0 * c0.
MaxPos    == 3
MaxVel    == 2
MaxRadius == 2
MaxTime   == 3

Grid(n) == (-n .. n) \X (-n .. n)
Abs(x) == IF x < 0 THEN -x ELSE x

\* Vec2::dot, Vec2 - Vec2, Vec2::mag_sq
Dot(a, b) == a[1] * b[1] + a[2] * b[2]
Sub(a, b) == <<a[1] - b[1], a[2] - b[2]>>
MagSq(a)  == Dot(a, a)

\* the quadratic coefficients, as the function computes them
KernC0(v_lhs, v_rhs) ==
    Dot(v_lhs, v_lhs) + Dot(v_rhs, v_rhs) - Dot(v_lhs, v_rhs) - Dot(v_lhs, v_rhs)
\* c1 without the term v_rhs . p_rhs
KernC1NoRhs(p_lhs, p_rhs, v_lhs, v_rhs) ==
    Dot(v_lhs, p_lhs) - Dot(v_rhs, p_lhs) - Dot(v_lhs, p_rhs)
KernC1(p_lhs, p_rhs, v_lhs, v_rhs) ==
    Dot(v_lhs, p_lhs) + Dot(v_rhs, p_rhs) - Dot(v_rhs, p_lhs) - Dot(v_lhs, p_rhs)
KernC2(p_lhs, p_rhs, radius_sq) ==
    Dot(p_lhs, p_lhs) + Dot(p_rhs, p_rhs) - Dot(p_lhs, p_rhs) - Dot(p_lhs, p_rhs)
        - radius_sq

collides_within_time(p_lhs, p_rhs, v_lhs, v_rhs, radius_sq, time) ==
    IF MagSq(Sub(p_lhs, p_rhs)) < radius_sq THEN TRUE
    ELSE
        LET c0 == KernC0(v_lhs, v_rhs)
            c1 == KernC1(p_lhs, p_rhs, v_lhs, v_rhs)
            c2 == KernC2(p_lhs, p_rhs, radius_sq)
            \* d = p * p - q, over c0 * c0
            d           == c1 * c1 - c2 * c0
            p_sq_signed == c1 * Abs(c1)
            time_sq     == time * time * c0 * c0
            value       == time_sq + p_sq_signed
        IN  IF c0 = 0 THEN
                \* p = 0 / 0 is NaN, so is d: both comparisons fail
                FALSE
            ELSE IF d = 0 /\ 0 < c1 THEN
                \* p < time
                c1 < time * c0
            ELSE IF 0 < d THEN
                \/ d > p_sq_signed /\ d < value
                \/ d < -p_sq_signed /\ -d < value
            ELSE FALSE

\* the arguments on which the f32 divisions by c0 are exact
Exact(v_lhs, v_rhs) == KernC0(v_lhs, v_rhs) \in {0} \cup {2 ^ k : k \in 0 .. 8}

\* the search is not running
SearchOff ==
    /\ visited = <<>> /\ pending = {} /\ pc = "off"
    /\ cur = [cost |-> 0, p0_index |-> 0, p1_index |-> USIZE_MAX, p0_cost |-> 0]
    /\ todo = <<>> /\ result = None /\ moves = <<>> /\ heavy = start
    /\ validM = {} /\ jumpM = {} /\ costM = {}
    /\ calls = <<>>
    /\ popped = [entry |-> [est |-> 0, cost |-> 0, index |-> 0, fallback |-> None],
                 kind |-> "none", pushed |-> None, commit |-> None]
    /\ edges = <<>> /\ gen = None /\ tests = <<>>

KernInit ==
    /\ SearchOff
    /\ \E p_lhs \in Grid(MaxPos), p_rhs \in {<<0, 0>>, <<1, 0>>},
          v_lhs \in Grid(MaxVel), v_rhs \in {<<0, 0>>, <<0, 1>>},
          r \in 1 .. MaxRadius, time \in -MaxTime .. MaxTime :
          /\ Exact(v_lhs, v_rhs)
          /\ kern = [at |-> "call", p_lhs |-> p_lhs, p_rhs |-> p_rhs,
                     v_lhs |-> v_lhs, v_rhs |-> v_rhs,
                     radius_sq |-> r * r, time |-> time]

\* the call returns
KernReturn ==
    /\ kern.at = "call"
    /\ kern' = [kern EXCEPT !.at = "ret"] @@
               ("ret" :> collides_within_time(kern.p_lhs, kern.p_rhs, kern.v_lhs,
                                              kern.v_rhs, kern.radius_sq, kern.time))
    /\ UNCHANGED <<visited, pending, pc, cur, todo, result, moves, heavy, validM,
                   jumpM, costM, calls, popped, edges, gen, tests>>

KernNext == KernReturn

KernSpec == KernInit /\ [][KernNext]_vars

\* |dp + dv * tau|^2 = radius_sq, that is a tau^2 + 2 b tau + c = 0 with
\* a = |dv|^2, b = dp . dv and c = |dp|^2 - radius_sq >= 0, has a real root
\* tau with 0 < tau <= time.  For a = 0 the left side is the constant c.
\* For c = 0 the roots are 0 and -2b / a.  For c > 0 the parabola is positive
\* at 0, so it has a root in (0, time] iff its least value over [0, time] is
\* not positive: at the vertex -b / a if that lies in (0, time], at time if
\* the vertex lies beyond time.
RootInWindow(a, b, c, time) ==
    IF time <= 0 THEN FALSE
    ELSE IF a = 0 THEN c = 0
    ELSE IF c = 0 THEN b < 0 /\ -2 * b <= a * time
    ELSE \/ b < 0 /\ -b <= a * time /\ b * b >= a * c
         \/ -b > a * time /\ a * time * time + 2 * b * time + c <= 0

\* C20 -- collides_within_time returns true iff the two are already closer
\* than the radius or the distance equals the radius at some tau in
\* (0, time].
C20_KernelIffRoot ==
    kern.at = "ret" =>
        LET dp == Sub(kern.p_lhs, kern.p_rhs)
            dv == Sub(kern.v_lhs, kern.v_rhs)
        IN  kern.ret <=>
                \/ MagSq(dp) < kern.radius_sq
                \/ RootInWindow(MagSq(dv), Dot(dp, dv), MagSq(dp) - kern.radius_sq,
                                kern.time)

\* C21 -- sub-window monotonicity: a call that returns true for a window
\* length time returns true for every window length t >= time, the other
\* arguments being the same.
C21_SubWindowMonotone ==
    (kern.at = "ret" /\ kern.ret) =>
        \A t \in kern.time .. (MaxTime + 1) :
            collides_within_time(kern.p_lhs, kern.p_rhs, kern.v_lhs, kern.v_rhs,
                                 kern.radius_sq, t)

\* C22 -- touch symmetry: the call with (p_lhs, v_lhs) and (p_rhs, v_rhs)
\* swapped returns what the call returned.
C22_TouchSymmetry ==
    kern.at = "ret" =>
        kern.ret = collides_within_time(kern.p_rhs, kern.p_lhs, kern.v_rhs, kern.v_lhs,
                                        kern.radius_sq, kern.time)

\* a collision found between two moving bodies that are not touching, the
\* right one neither at the origin nor at rest
C22_Witness ==
    /\ kern.at = "ret" /\ kern.ret
    /\ MagSq(Sub(kern.p_lhs, kern.p_rhs)) >= kern.radius_sq
    /\ kern.p_rhs # <<0, 0>> /\ kern.v_rhs # <<0, 0>> /\ kern.v_lhs # <<0, 0>>
    /\ Dot(kern.v_rhs, kern.p_rhs) # Dot(kern.v_lhs, kern.p_lhs)

\* C23 -- for a window length time <= 0 the call returns the initial-touch
\* test |p_lhs - p_rhs|^2 < radius_sq, whatever the velocities.
C23_EmptyWindowIsTouchTest ==
    (kern.at = "ret" /\ kern.time <= 0) =>
        (kern.ret <=> MagSq(Sub(kern.p_lhs, kern.p_rhs)) < kern.radius_sq)

\* ------------------------------------------------------ solve_collision_time
\* math::solve_collision_time and solve_quadratic.  An f32 is kept as a
\* fraction [num, den] with den > 0.  The arguments drawn are those on which
\* every f32 operation is exact: p and q are dyadic and d is the square of a
\* fraction, so that d.sqrt() is exact as well (SolveExact).
Frac(n, d) == [num |-> n, den |-> d]
FracPos(f) == f.num > 0
FracLess(f, g) == f.num * g.den < g.num * f.den
FracMin(f, g) == IF FracLess(g, f) THEN g ELSE f
FracMax(f, g) == IF FracLess(g, f) THEN f ELSE g

\* f32::sqrt of a square
Isqrt(n) == CHOOSE r \in 0 .. n : r * r = n
IsSquare(n) == n >= 0 /\ \E r \in 0 .. n : r * r = n

\* solve_quadratic(c0, c1, c2) for c0 > 0: p = c1 / (c0 + c0), q = c2 / c0 and
\* d = p * p - q = dn / (2 c0)^2
solve_quadratic(c0, c1, c2) ==
    LET dn == c1 * c1 - 4 * c2 * c0 IN
    IF dn = 0 THEN [kind |-> "One", t |-> Frac(-c1, 2 * c0)]
    ELSE IF dn < 0 THEN [kind |-> "None"]
    ELSE [kind |-> "Two", t  |-> Frac(Isqrt(dn) - c1, 2 * c0),
                          t2 |-> Frac(-Isqrt(dn) - c1, 2 * c0)]

\* solve_collision_time with t.max(t2) in the arm (true, true)
SolveTakesMax(p_lhs, p_rhs, v_lhs, v_rhs, radius_sq) ==
    IF MagSq(Sub(p_lhs, p_rhs)) < radius_sq THEN Some(Frac(0, 1))
    ELSE
        LET c0 == KernC0(v_lhs, v_rhs)
            c1 == KernC1(p_lhs, p_rhs, v_lhs, v_rhs)
            c2 == KernC2(p_lhs, p_rhs, 0)
            s  == solve_quadratic(c0, c1 + c1, c2 - radius_sq)
        IN  IF c0 = 0 THEN None
            ELSE IF s.kind = "One" THEN (IF FracPos(s.t) THEN Some(s.t) ELSE None)
            ELSE IF s.kind = "Two" THEN
                IF FracPos(s.t) /\ FracPos(s.t2) THEN Some(FracMax(s.t, s.t2))
                ELSE IF FracPos(s.t) THEN Some(s.t)
                ELSE IF FracPos(s.t2) THEN Some(s.t2)
                ELSE None
            ELSE None

solve_collision_time(p_lhs, p_rhs, v_lhs, v_rhs, radius_sq) ==
    IF MagSq(Sub(p_lhs, p_rhs)) < radius_sq THEN Some(Frac(0, 1))
    ELSE
        LET c0 == KernC0(v_lhs, v_rhs)
            c1 == KernC1(p_lhs, p_rhs, v_lhs, v_rhs)
            c2 == KernC2(p_lhs, p_rhs, 0)
            s  == solve_quadratic(c0, c1 + c1, c2 - radius_sq)
        IN  IF c0 = 0 THEN
                \* p, q and d are NaN: Two(NaN, NaN), neither is > 0.0
                None
            ELSE IF s.kind = "One" THEN (IF FracPos(s.t) THEN Some(s.t) ELSE None)
            ELSE IF s.kind = "Two" THEN
                IF FracPos(s.t) /\ FracPos(s.t2) THEN Some(FracMin(s.t, s.t2))
                ELSE IF FracPos(s.t) THEN Some(s.t)
                ELSE IF FracPos(s.t2) THEN Some(s.t2)
                ELSE None
            ELSE None

\* n / c0 is an f32 of few bits: c0 without its factors of two divides n
Dyadic(n, c0) == {k \in 0 .. 16 : (n * 2 ^ k) % c0 = 0} # {}

SolveExact(p_lhs, p_rhs, v_lhs, v_rhs, radius_sq) ==
    LET c0 == KernC0(v_lhs, v_rhs)
        c1 == KernC1(p_lhs, p_rhs, v_lhs, v_rhs)
        c2 == KernC2(p_lhs, p_rhs, radius_sq)
    IN  IF MagSq(Sub(p_lhs, p_rhs)) < radius_sq \/ c0 = 0 THEN TRUE
        ELSE /\ Dyadic(c1, c0) /\ Dyadic(c2, c0)
             /\ c1 * c1 - c2 * c0 < 0 \/ IsSquare(c1 * c1 - c2 * c0)

\* the arguments of the test solve_collision_time_is_correct
SolveTest ==
    [at |-> "call", p_lhs |-> <<-100, 0>>, p_rhs |-> <<100, 0>>,
     v_lhs |-> <<10, 0>>, v_rhs |-> <<-10, 0>>, radius_sq |-> 100]

SolveInit ==
    /\ SearchOff
    /\ \/ kern = SolveTest
       \/ \E p_lhs \in Grid(MaxPos), p_rhs \in {<<0, 0>>, <<1, 0>>},
             v_lhs \in Grid(MaxVel), v_rhs \in {<<0, 0>>, <<0, 1>>},
             r \in 1 .. MaxRadius :
             /\ SolveExact(p_lhs, p_rhs, v_lhs, v_rhs, r * r)
             /\ kern = [at |-> "call", p_lhs |-> p_lhs, p_rhs |-> p_rhs,
                        v_lhs |-> v_lhs, v_rhs |-> v_rhs, radius_sq |-> r * r]

SolveReturn ==
    /\ kern.at = "call"
    /\ kern' = [kern EXCEPT !.at = "ret"] @@
               ("ret" :> solve_collision_time(kern.p_lhs, kern.p_rhs, kern.v_lhs,
                                              kern.v_rhs, kern.radius_sq))
    /\ UNCHANGED <<visited, pending, pc, cur, todo, result, moves, heavy, validM,
                   jumpM, costM, calls, popped, edges, gen, tests>>

SolveNext == SolveReturn

SolveSpec == SolveInit /\ [][SolveNext]_vars

\* C24 -- solve_collision_time returns Some(0) for discs that overlap,
\* otherwise Some(tau) for the smallest tau > 0 with
\* |dp + dv * tau|^2 = radius_sq and None if there is no such tau; on the
\* arguments of the test it returns 9.5.  With a = |dv|^2, b = dp . dv and
\* c = |dp|^2 - radius_sq >= 0 the roots are n / a for the integers n with
\* n^2 + 2 b n + a c = 0, and a positive one is at most 2 |b| / a.  Equal
\* velocities at exactly the radius (a = 0, c = 0) make every tau a root and
\* none the smallest: nothing is asked of that call.
C24_SmallestPositiveRoot ==
    kern.at = "ret" =>
        LET dp == Sub(kern.p_lhs, kern.p_rhs)
            dv == Sub(kern.v_lhs, kern.v_rhs)
            a  == MagSq(dv)
            b  == Dot(dp, dv)
            c  == MagSq(dp) - kern.radius_sq
            roots == {n \in 1 .. 2 * Abs(b) : n * n + 2 * b * n + a * c = 0}
        IN  /\ c < 0 => kern.ret # None /\ Unwrap(kern.ret).num = 0
            /\ (c >= 0 /\ (a = 0 => c > 0)) =>
                  /\ kern.ret = None <=> (a = 0 \/ roots = {})
                  /\ kern.ret # None =>
                        \E n \in roots :
                            /\ \A m \in roots : n <= m
                            /\ Unwrap(kern.ret).num * a = n * Unwrap(kern.ret).den
            /\ [kern EXCEPT !.at = "call"] = SolveTest @@ ("ret" :> kern.ret) =>
                  /\ kern.ret # None
                  /\ 2 * Unwrap(kern.ret).num = 19 * Unwrap(kern.ret).den

\* two different roots were positive and the smaller one was returned
C24_Witness ==
    /\ kern.at = "ret" /\ kern.ret # None
    /\ LET dp == Sub(kern.p_lhs, kern.p_rhs)
           dv == Sub(kern.v_lhs, kern.v_rhs)
       IN  /\ MagSq(dp) > kern.radius_sq
           /\ Cardinality({n \in 1 .. 2 * Abs(Dot(dp, dv)) :
                             n * n + 2 * Dot(dp, dv) * n
                                 + MagSq(dv) * (MagSq(dp) - kern.radius_sq) = 0}) = 2

\* ------------------------------------------------------------------
\* Missile (missile.rs)
\* ------------------------------------------------------------------

\* Pos::new, Pos::vec and Pos::time
Pos(x, y, t) == [x |-> x, y |-> y, t |-> t]
Vec(pos) == <<pos.x, pos.y>>
Add(a, b) == <<a[1] + b[1], a[2] + b[2]>>
Scale(v, k) == <<v[1] * k, v[2] * k>>
MaxOf(a, b) == IF a < b THEN b ELSE a
MinOf(a, b) == IF b < a THEN b ELSE a

\* the struct Missile; target plays no part in the queries
Missile(time_beg, time_end, radius, origin, time_offset) ==
    [time_beg |-> time_beg, time_end |-> time_end, radius |-> radius,
     origin |-> origin, time_offset |-> time_offset]

\* Missile::collides
Missile_collides(m, pos, pos_velocity, time, pawn_size) ==
    LET t_beg == MaxOf(MaxOf(m.time_beg, time.start), pos.t)
        t_end == MinOf(m.time_end, time.end)
    IN  IF t_end < t_beg THEN FALSE
        ELSE collides_within_time(
                 Add(Vec(pos), Scale(pos_velocity, t_beg - pos.t)),
                 Add(m.origin, Scale(m.time_offset, t_beg - m.time_beg)),
                 pos_velocity, m.time_offset,
                 (m.radius + pawn_size) * (m.radius + pawn_size), t_end - t_beg)

\* the missiles of the calls: born at 0 or 1, gone at 2 or MaxTime, at rest
\* or moving away from the origin
Missiles ==
    {Missile(b, e, 1, <<0, 0>>, off) :
        b \in {0, 1}, e \in {2, MaxTime}, off \in {<<0, 0>>, <<0, 1>>, <<1, 1>>}}

CollidesInit ==
    /\ SearchOff
    /\ \E m \in Missiles, xy \in Grid(MaxPos), t \in {0, 1},
          pos_velocity \in Grid(MaxVel), a \in {0, 1}, b \in {0, MaxTime},
          pawn_size \in 0 .. MaxRadius - 1 :
          /\ Exact(pos_velocity, m.time_offset)
          /\ kern = [at |-> "call", missile |-> m, pos |-> Pos(xy[1], xy[2], t),
                     pos_velocity |-> pos_velocity,
                     time |-> [start |-> a, end |-> b], pawn_size |-> pawn_size]

CollidesReturn ==
    /\ kern.at = "call"
    /\ kern' = [kern EXCEPT !.at = "ret"] @@
               ("ret" :> Missile_collides(kern.missile, kern.pos, kern.pos_velocity,
                                          kern.time, kern.pawn_size))
    /\ UNCHANGED <<visited, pending, pc, cur, todo, result, moves, heavy, validM,
                   jumpM, costM, calls, popped, edges, gen, tests>>

CollidesNext == CollidesReturn

CollidesSpec == CollidesInit /\ [][CollidesNext]_vars

\* C25 -- Missile::collides returns true iff the clipped window
\* [max(a, time_beg, pos.t), min(b, time_end)] is not empty and the pawn and
\* the missile, both advanced to its start, are closer than
\* radius + pawn_size there or at that distance at some later instant of it.
C25_CollidesIffContact ==
    kern.at = "ret" =>
        LET m     == kern.missile
            t_beg == MaxOf(MaxOf(kern.time.start, m.time_beg), kern.pos.t)
            t_end == MinOf(kern.time.end, m.time_end)
            dp    == Sub(Add(Vec(kern.pos), Scale(kern.pos_velocity, t_beg - kern.pos.t)),
                         Add(m.origin, Scale(m.time_offset, t_beg - m.time_beg)))
            dv    == Sub(kern.pos_velocity, m.time_offset)
            r     == m.radius + kern.pawn_size
        IN  kern.ret <=>
                /\ t_beg <= t_end
                /\ \/ MagSq(dp) < r * r
                   \/ RootInWindow(MagSq(dv), Dot(dp, dv), MagSq(dp) - r * r,
                                   t_end - t_beg)

\* Line::dist_to_point_sq, the value as a fraction: t = num / l2 is clamped
\* to [0, 1], and 0 / 0 is a NaN that max(0.0) turns into 0
DistUnclamped(line, point) ==
    LET v   == line[1]
        d   == Sub(line[2], v)
        l2  == MagSq(d)
        num == Dot(Sub(point, v), d)
        den == IF l2 = 0 THEN 1 ELSE l2
        tn  == IF l2 = 0 THEN 0 ELSE num
    IN  Frac(MagSq(Add(Scale(Sub(v, point), den), Scale(d, tn))), den * den)

dist_to_point_sq(line, point) ==
    LET v   == line[1]
        d   == Sub(line[2], v)
        l2  == MagSq(d)
        num == Dot(Sub(point, v), d)
        den == IF l2 = 0 THEN 1 ELSE l2
        tn  == IF l2 = 0 THEN 0 ELSE MinOf(MaxOf(num, 0), l2)
    IN  Frac(MagSq(Add(Scale(Sub(v, point), den), Scale(d, tn))), den * den)

\* Missile::get_pos_range
get_pos_range(m, time) ==
    LET is_alive   == m.time_beg <= time.end /\ time.start <= m.time_end
        time_beg   == MaxOf(m.time_beg, time.start)
        time_end   == MinOf(m.time_end, time.end)
        off_to_beg == time_beg - m.time_beg
        off_to_end == time_end - time_beg
        beg_pos    == Add(m.origin, Scale(m.time_offset, off_to_beg))
        end_pos    == Add(beg_pos, Scale(m.time_offset, off_to_end))
    IN  IF is_alive
        THEN Some(<<Pos(beg_pos[1], beg_pos[2], time_beg),
                    Pos(end_pos[1], end_pos[2], time_end)>>)
        ELSE None

\* Missile::overlaps
Missile_overlaps(m, smear_from, pos, pawn_size) ==
    LET range == get_pos_range(m, [start |-> smear_from, end |-> pos.t])
    IN  IF range = None THEN FALSE
        ELSE FracLess(dist_to_point_sq(<<Vec(Unwrap(range)[1]), Vec(Unwrap(range)[2])>>,
                                       Vec(pos)),
                      Frac((m.radius + pawn_size) * (m.radius + pawn_size), 1))

\* the quotient num / l2 of dist_to_point_sq is an f32 of few bits or is
\* clamped
OverlapsExact(m, smear_from, pos) ==
    LET range == get_pos_range(m, [start |-> smear_from, end |-> pos.t])
    IN  IF range = None THEN TRUE
        ELSE LET v   == Vec(Unwrap(range)[1])
                 d   == Sub(Vec(Unwrap(range)[2]), v)
                 num == Dot(Sub(Vec(pos), v), d)
             IN  IF MagSq(d) = 0 \/ num <= 0 \/ num >= MagSq(d) THEN TRUE
                 ELSE Dyadic(num, MagSq(d))

OverlapsInit ==
    /\ SearchOff
    /\ \E m \in Missiles, smear_from \in 0 .. MaxTime, xy \in Grid(MaxPos),
          t \in 0 .. MaxTime, pawn_size \in 0 .. MaxRadius - 1 :
          /\ OverlapsExact(m, smear_from, Pos(xy[1], xy[2], t))
          /\ kern = [at |-> "call", missile |-> m, smear_from |-> smear_from,
                     pos |-> Pos(xy[1], xy[2], t), pawn_size |-> pawn_size]

OverlapsReturn ==
    /\ kern.at = "call"
    /\ kern' = [kern EXCEPT !.at = "ret"] @@
               ("ret" :> Missile_overlaps(kern.missile, kern.smear_from, kern.pos,
                                          kern.pawn_size))
    /\ UNCHANGED <<visited, pending, pc, cur, todo, result, moves, heavy, validM,
                   jumpM, costM, calls, popped, edges, gen, tests>>

OverlapsNext == OverlapsReturn

OverlapsSpec == OverlapsInit /\ [][OverlapsNext]_vars

\* some point of the path c + off * tau, 0 <= tau <= len, is closer than r to
\* the origin: an end of it is, or the point nearest to the origin lies
\* between the ends and is
SweepWithin(c, off, len, r) ==
    LET a == MagSq(off)
        b == Dot(c, off)
        e == Add(c, Scale(off, len))
    IN  \/ MagSq(c) < r * r
        \/ MagSq(e) < r * r
        \/ 0 < -b /\ -b < a * len /\ a * (MagSq(c) - r * r) < b * b

\* C27 -- for a smear window [smear_from, pos.t] (smear_from <= pos.t),
\* Missile::overlaps is true iff the window meets the lifetime
\* [time_beg, time_end] and the missile's centre comes strictly closer than
\* radius + pawn_size to (pos.x, pos.y) at some instant of
\* [max(smear_from, time_beg), min(pos.t, time_end)]; so it is false for a
\* window that ends before time_beg or starts after time_end.
C27_OverlapsIffSweepNear ==
    (kern.at = "ret" /\ kern.smear_from <= kern.pos.t) =>
        LET m  == kern.missile
            lo == MaxOf(kern.smear_from, m.time_beg)
            hi == MinOf(kern.pos.t, m.time_end)
        IN  /\ kern.ret <=>
                  /\ lo <= hi
                  /\ SweepWithin(Sub(Add(m.origin, Scale(m.time_offset, lo - m.time_beg)),
                                     Vec(kern.pos)),
                                 m.time_offset, hi - lo, m.radius + kern.pawn_size)
            /\ (kern.pos.t < m.time_beg \/ m.time_end < kern.smear_from) => ~kern.ret

\* an overlap found strictly inside the swept segment: neither end of it is
\* near enough
C27_Witness ==
    /\ kern.at = "ret" /\ kern.ret /\ kern.smear_from < kern.pos.t
    /\ LET m  == kern.missile
           lo == MaxOf(kern.smear_from, m.time_beg)
           hi == MinOf(kern.pos.t, m.time_end)
           r  == m.radius + kern.pawn_size
           c  == Sub(Add(m.origin, Scale(m.time_offset, lo - m.time_beg)), Vec(kern.pos))
       IN  /\ lo < hi
           /\ MagSq(c) >= r * r
           /\ MagSq(Add(c, Scale(m.time_offset, hi - lo))) >= r * r

\* ------------------------------------------------------------------
\* MissileSet (missile.rs): an FxIndexMap, its entries in insertion order
\* ------------------------------------------------------------------

MaxMissiles == 2

\* the answers of the per-missile predicate, entry by entry
OverlapsHits(set, smear_from, pos, pawn_size) ==
    [i \in 1 .. Len(set) |-> Missile_overlaps(set[i].missile, smear_from, pos, pawn_size)]

CollidesHits(set, pos, velocity, end_time, pawn_size) ==
    [i \in 1 .. Len(set) |->
        Missile_collides(set[i].missile, pos, velocity,
                         [start |-> pos.t, end |-> end_time], pawn_size)]

RECURSIVE FindFrom(_, _, _)
\* iter().find(..).map(|(&i, _)| i), from entry i on
FindFrom(set, hits, i) ==
    IF i > Len(set) THEN None
    ELSE IF hits[i] THEN Some(set[i].id)
    ELSE FindFrom(set, hits, i + 1)

\* the mutant of Find: the last match wins
FindLast(set, hits) ==
    LET is == {i \in 1 .. Len(set) : hits[i]}
    IN  IF is = {} THEN None
        ELSE Some(set[CHOOSE i \in is : \A j \in is : j <= i].id)

Find(set, hits) == FindFrom(set, hits, 1)

\* MissileSet::overlaps
MissileSet_overlaps(set, smear_from, pos, pawn_size) ==
    Find(set, OverlapsHits(set, smear_from, pos, pawn_size))

\* MissileSet::collides_velocity
MissileSet_collides_velocity(set, pos, velocity, end_time, pawn_size) ==
    Find(set, CollidesHits(set, pos, velocity, end_time, pawn_size))

\* the sets of the calls: up to MaxMissiles missiles, inserted under
\* different ids in any order
SetMissiles ==
    {Missile(b, MaxTime, 1, <<0, 0>>, off) : b \in {0, 1}, off \in {<<0, 0>>, <<0, 1>>}}

MissileSets ==
    UNION {{set \in [1 .. n -> [id : 0 .. MaxMissiles - 1, missile : SetMissiles]] :
               \A i, j \in 1 .. n : set[i].id = set[j].id => i = j} :
           n \in 0 .. MaxMissiles}

SetInit ==
    /\ SearchOff
    /\ \E set \in MissileSets, xy \in Grid(MaxRadius), t \in {0, 1},
          pawn_size \in {0, 1} :
          \/ \E smear_from \in {0, 1} :
                /\ \A i \in 1 .. Len(set) :
                      OverlapsExact(set[i].missile, smear_from, Pos(xy[1], xy[2], t))
                /\ kern = [at |-> "call", fn |-> "overlaps", set |-> set,
                           smear_from |-> smear_from, pos |-> Pos(xy[1], xy[2], t),
                           pawn_size |-> pawn_size]
          \/ \E velocity \in {<<0, 0>>, <<1, 0>>, <<0, -1>>, <<1, 1>>},
                end_time \in {1, MaxTime} :
                /\ \A i \in 1 .. Len(set) : Exact(velocity, set[i].missile.time_offset)
                /\ kern = [at |-> "call", fn |-> "collides_velocity", set |-> set,
                           pos |-> Pos(xy[1], xy[2], t), velocity |-> velocity,
                           end_time |-> end_time, pawn_size |-> pawn_size]

SetOverlapsReturn ==
    /\ kern.at = "call" /\ kern.fn = "overlaps"
    /\ kern' = [kern EXCEPT !.at = "ret"] @@
               ("ret" :> MissileSet_overlaps(kern.set, kern.smear_from, kern.pos,
                                             kern.pawn_size))
    /\ UNCHANGED <<visited, pending, pc, cur, todo, result, moves, heavy, validM,
                   jumpM, costM, calls, popped, edges, gen, tests>>

SetCollidesReturn ==
    /\ kern.at = "call" /\ kern.fn = "collides_velocity"
    /\ kern' = [kern EXCEPT !.at = "ret"] @@
               ("ret" :> MissileSet_collides_velocity(kern.set, kern.pos, kern.velocity,
                                                      kern.end_time, kern.pawn_size))
    /\ UNCHANGED <<visited, pending, pc, cur, todo, result, moves, heavy, validM,
                   jumpM, costM, calls, popped, edges, gen, tests>>

SetNext == SetOverlapsReturn \/ SetCollidesReturn

SetSpec == SetInit /\ [][SetNext]_vars

\* the entries of the set of the call that satisfy the per-missile predicate
\* of the query
Matches ==
    {i \in 1 .. Len(kern.set) :
        IF kern.fn = "overlaps"
        THEN Missile_overlaps(kern.set[i].missile, kern.smear_from, kern.pos,
                              kern.pawn_size)
        ELSE Missile_collides(kern.set[i].missile, kern.pos, kern.velocity,
                              [start |-> kern.pos.t, end |-> kern.end_time],
                              kern.pawn_size)}

\* C26 -- MissileSet::overlaps and MissileSet::collides_velocity return the
\* id of the first entry, in insertion order, whose missile satisfies the
\* per-missile predicate, and None iff no entry does (so None for the empty
\* set); the query leaves the set as it was.
C26_FirstMatchWins ==
    /\ [](kern.at = "ret" =>
            /\ kern.ret = None <=> Matches = {}
            /\ kern.ret # None =>
                  \E i \in Matches :
                      /\ \A j \in Matches : i <= j
                      /\ kern.ret = Some(kern.set[i].id))
    /\ [][kern'.set = kern.set]_vars

\* two missiles match and the first inserted, which has the larger id, is
\* the one returned
C26_Witness ==
    /\ kern.at = "ret" /\ Matches = {1, 2}
    /\ kern.set[1].id > kern.set[2].id
    /\ kern.ret = Some(kern.set[1].id)

\* ------------------------------------------------------------------
\* Pos::jump_calc (pos.rs).  Coordinates and times are counted in
\* sixteenths, which f32 holds exactly.
\* ------------------------------------------------------------------

Unit == 16

absdiff(x, y) == IF x < y THEN y - x ELSE x - y
dist_manhattan(a, b) == absdiff(a.x, b.x) + absdiff(a.y, b.y)
dist_sq(a, b) == (a.x - b.x) * (a.x - b.x) + (a.y - b.y) * (a.y - b.y)
dist(a, b) == Isqrt(dist_sq(a, b))

\* dist_manhattan(..) < 0.1, the distance being d / Unit
Below01(d) == 10 * d < Unit

\* the mutant of jump_calc: the three count as identical only if n1 and
\* to_node are the same too
JumpCalcAllPairs(n1, n2, to_node, move_speed) ==
    LET n1_n2_same == Below01(dist_manhattan(n1, n2))
        n1_n3_same == Below01(dist_manhattan(n1, to_node))
        n2_n3_same == Below01(dist_manhattan(n2, to_node))
    IN  IF ~n1_n2_same /\ ~n2_n3_same /\ ~n1_n3_same
        THEN Some([to_node EXCEPT !.t = n1.t + dist(to_node, n1) \div move_speed])
        ELSE IF n1_n2_same /\ n2_n3_same /\ n1_n3_same THEN Some(to_node)
        ELSE None

jump_calc(n1, n2, to_node, move_speed) ==
    LET n1_n2_same == Below01(dist_manhattan(n1, n2))
        n1_n3_same == Below01(dist_manhattan(n1, to_node))
        n2_n3_same == Below01(dist_manhattan(n2, to_node))
    IN  IF ~n1_n2_same /\ ~n2_n3_same /\ ~n1_n3_same
        THEN Some([to_node EXCEPT !.t = n1.t + dist(to_node, n1) \div move_speed])
        ELSE IF n1_n2_same /\ n2_n3_same THEN Some(to_node)
        ELSE None

\* the square root and the quotient of the new time are exact
JumpExact(n1, to_node, move_speed) ==
    IF IsSquare(dist_sq(to_node, n1)) THEN dist(to_node, n1) % move_speed = 0
    ELSE FALSE

\* the positions of the calls: a sixteenth apart along x, on three rows
JumpPoints == {<<x, y>> : x \in 0 .. MaxPos + 1, y \in {0, 1, 3}}

JumpInit ==
    /\ SearchOff
    /\ \E p1 \in JumpPoints, p2 \in JumpPoints, p3 \in JumpPoints,
          t1 \in {0, 1}, t3 \in {0, 5}, move_speed \in {1, 2} :
          /\ JumpExact(Pos(p1[1], p1[2], t1), Pos(p3[1], p3[2], t3), move_speed)
          /\ kern = [at |-> "call", n1 |-> Pos(p1[1], p1[2], t1),
                     n2 |-> Pos(p2[1], p2[2], 2), to_node |-> Pos(p3[1], p3[2], t3),
                     move_speed |-> move_speed]

JumpReturn ==
    /\ kern.at = "call"
    /\ kern' = [kern EXCEPT !.at = "ret"] @@
               ("ret" :> jump_calc(kern.n1, kern.n2, kern.to_node, kern.move_speed))
    /\ UNCHANGED <<visited, pending, pc, cur, todo, result, moves, heavy, validM,
                   jumpM, costM, calls, popped, edges, gen, tests>>

JumpNext == JumpReturn

JumpSpec == JumpInit /\ [][JumpNext]_vars

\* to_node with the time of a straight run from n1 at move_speed
Retimed(ret) ==
    /\ ret.x = kern.to_node.x /\ ret.y = kern.to_node.y
    /\ ret.t >= kern.n1.t
    /\ (ret.t - kern.n1.t) * (ret.t - kern.n1.t) * kern.move_speed * kern.move_speed
           = dist_sq(kern.n1, kern.to_node)

SameXY(a, b) == a.x = b.x /\ a.y = b.y

\* C28 -- Pos::jump_calc: three positions pairwise different in (x, y) give
\* to_node with t = n1.t + dist(n1, to_node) / move_speed; three positions
\* with the same (x, y) give to_node unchanged; exactly two with the same
\* (x, y) give None.
C28_JumpCalcCases ==
    kern.at = "ret" =>
        LET same == {pr \in {<<kern.n1, kern.n2>>, <<kern.n1, kern.to_node>>,
                             <<kern.n2, kern.to_node>>} : SameXY(pr[1], pr[2])}
        IN  /\ same = {} => kern.ret # None /\ Retimed(Unwrap(kern.ret))
            /\ (SameXY(kern.n1, kern.n2) /\ SameXY(kern.n2, kern.to_node)) =>
                   kern.ret = Some(kern.to_node)
            /\ Cardinality(same) = 1 => kern.ret = None

\* closer than 0.1 in Manhattan distance
Near(a, b) == 10 * (Abs(a.x - b.x) + Abs(a.y - b.y)) < Unit

\* C28, amended -- with two positions the same when their Manhattan distance
\* is below 0.1: no two the same give to_node with
\* t = n1.t + dist(n1, to_node) / move_speed; n1 the same as n2 and n2 the
\* same as to_node give to_node unchanged; every other case gives None.
C28_JumpCalcTolerance ==
    kern.at = "ret" =>
        IF ~Near(kern.n1, kern.n2) /\ ~Near(kern.n1, kern.to_node)
              /\ ~Near(kern.n2, kern.to_node)
        THEN kern.ret # None /\ Retimed(Unwrap(kern.ret))
        ELSE IF Near(kern.n1, kern.n2) /\ Near(kern.n2, kern.to_node)
        THEN kern.ret = Some(kern.to_node)
        ELSE kern.ret = None

\* three positions pairwise different in (x, y), the last one a sixteenth
\* from the first: the call refused the jump
C28_Witness ==
    /\ kern.at = "ret" /\ kern.ret = None
    /\ ~SameXY(kern.n1, kern.n2) /\ ~SameXY(kern.n2, kern.to_node)
    /\ ~SameXY(kern.n1, kern.to_node)
    /\ Near(kern.n1, kern.to_node) /\ ~Near(kern.n1, kern.n2)

\* ------------------------------------------------------------------
\* Pos::successors (pos.rs).  A time or a cost r + s * SQRT_2 is the record
\* [r |-> r, s |-> s].
\* ------------------------------------------------------------------

Surd(r, s) == [r |-> r, s |-> s]
SurdAdd(u, v) == Surd(u.r + v.r, u.s + v.s)

\* u < v, by the sign of (v.r - u.r) + (v.s - u.s) * SQRT_2
SurdLess(u, v) ==
    LET r == v.r - u.r
        s == v.s - u.s
    IN  \/ r >= 0 /\ s >= 0 /\ (r > 0 \/ s > 0)
        \/ r > 0 /\ s < 0 /\ r * r > 2 * s * s
        \/ r < 0 /\ s > 0 /\ 2 * s * s > r * r

\* the constants DIR and DIA of Pos::successors
DIR == Surd(1, 0)
DIA == Surd(0, 1)

\* Pos::next
Pos_next(self, diff_x, diff_y, diff_t) ==
    Pos(self.x + diff_x, self.y + diff_y, SurdAdd(self.t, diff_t))

\* the mutant of Pos_successors: a diagonal takes the time of an axis move
SuccessorsDiagInDirTime(self, step_time, step_size) ==
    LET s == step_size
        dir_diff_t == Surd(step_time, 0)
    IN  << <<Pos_next(self, 0, 0, Surd(step_time, 0)), Surd(0, 0)>>,
           <<Pos_next(self, s, 0, dir_diff_t), DIR>>,
           <<Pos_next(self, 0, s, dir_diff_t), DIR>>,
           <<Pos_next(self, 0, -s, dir_diff_t), DIR>>,
           <<Pos_next(self, -s, 0, dir_diff_t), DIR>>,
           <<Pos_next(self, s, s, dir_diff_t), DIA>>,
           <<Pos_next(self, -s, s, dir_diff_t), DIA>>,
           <<Pos_next(self, -s, -s, dir_diff_t), DIA>>,
           <<Pos_next(self, s, -s, dir_diff_t), DIA>> >>

\* Pos::successors, the array in its order
Pos_successors(self, step_time, step_size) ==
    LET s == step_size
        dir_diff_t == Surd(step_time, 0)
        dia_diff_t == Surd(0, step_time)
    IN  << <<Pos_next(self, 0, 0, Surd(step_time, 0)), Surd(0, 0)>>,
           <<Pos_next(self, s, 0, dir_diff_t), DIR>>,
           <<Pos_next(self, 0, s, dir_diff_t), DIR>>,
           <<Pos_next(self, 0, -s, dir_diff_t), DIR>>,
           <<Pos_next(self, -s, 0, dir_diff_t), DIR>>,
           <<Pos_next(self, s, s, dia_diff_t), DIA>>,
           <<Pos_next(self, -s, s, dia_diff_t), DIA>>,
           <<Pos_next(self, -s, -s, dia_diff_t), DIA>>,
           <<Pos_next(self, s, -s, dia_diff_t), DIA>> >>

SuccInit ==
    /\ SearchOff
    /\ \E xy \in Grid(MaxPos), r \in 0 .. MaxTime, s \in {0, 1},
          step_time \in 0 .. 2, step_size \in 1 .. MaxRadius :
          kern = [at |-> "call", self |-> Pos(xy[1], xy[2], Surd(r, s)),
                  step_time |-> step_time, step_size |-> step_size]

SuccReturn ==
    /\ kern.at = "call"
    /\ kern' = [kern EXCEPT !.at = "ret"] @@
               ("ret" :> Pos_successors(kern.self, kern.step_time, kern.step_size))
    /\ UNCHANGED <<visited, pending, pc, cur, todo, result, moves, heavy, validM,
                   jumpM, costM, calls, popped, edges, gen, tests>>

SuccNext == SuccReturn

SuccSpec == SuccInit /\ [][SuccNext]_vars

\* C29 -- Pos::successors returns nine candidates, one for each offset
\* (dx, dy) * step_size with dx, dy in {-1, 0, 1}: the one that stays still
\* at t + step_time for cost 0, the four along an axis at t + step_time for
\* cost 1, the four diagonals at t + SQRT_2 * step_time for cost SQRT_2; for
\* step_time > 0 every candidate is later than the source.
C29_NineCandidates ==
    kern.at = "ret" =>
        LET src == kern.self
            c   == kern.ret
        IN  /\ Len(c) = 9
            /\ \A dx, dy \in {-1, 0, 1} :
                  \E i \in 1 .. 9 :
                      /\ c[i][1].x = src.x + dx * kern.step_size
                      /\ c[i][1].y = src.y + dy * kern.step_size
                      /\ \A j \in 1 .. 9 :
                            (c[j][1].x = c[i][1].x /\ c[j][1].y = c[i][1].y) => j = i
                      /\ IF dx # 0 /\ dy # 0
                         THEN /\ c[i][1].t = Surd(src.t.r, src.t.s + kern.step_time)
                              /\ c[i][2] = Surd(0, 1)
                         ELSE /\ c[i][1].t = Surd(src.t.r + kern.step_time, src.t.s)
                              /\ c[i][2] = Surd(IF dx = 0 /\ dy = 0 THEN 0 ELSE 1, 0)
            /\ kern.step_time > 0 =>
                  \A i \in 1 .. 9 : SurdLess(src.t, c[i][1].t)

\* a call with a positive step: the first candidate stays where the source
\* is, and a diagonal one arrives SQRT_2 * step_time later than the source
C29_Witness ==
    /\ kern.at = "ret" /\ kern.step_time > 0
    /\ kern.ret[1][1].x = kern.self.x /\ kern.ret[1][1].y = kern.self.y
    /\ \E i \in 1 .. 9 :
          /\ kern.ret[i][1].x # kern.self.x /\ kern.ret[i][1].y # kern.self.y
          /\ kern.ret[i][1].t = Surd(kern.self.t.r, kern.self.t.s + kern.step_time)

\* ------------------------------------------------------------------
\* The iterations that discard the popped entry
\* ------------------------------------------------------------------

\* C30 -- an iteration whose popped entry is stale, or whose popped entry
\* has no fallback and fails is_valid_move, removes that entry from the
\* frontier and changes nothing else: the visited table, with the stored
\* parent and cost of the rejected node, and every other pending entry are
\* as before, and the search goes on.
C30_DiscardFrame ==
    [][(PopStep /\ LET e == popped'.entry
                   IN  \/ visited[e.index + 1].cost < e.cost
                       \/ /\ e.fallback = None
                          /\ \E k \in 1 .. Len(calls') :
                                calls'[k].fn = "is_valid_move" /\ ~calls'[k].ret)
        => /\ popped'.entry \in pending
           /\ pending' = pending \ {popped'.entry}
           /\ visited' = visited
           /\ result' = result /\ pc' = "loop"]_vars

\* a stale entry has just been discarded: the table holds the cheaper cost
\* for its node and other entries are still pending
C30_Witness ==
    /\ popped.kind = "stale" /\ pending # {}
    /\ visited[popped.entry.index + 1].cost < popped.entry.cost

\* ------------------------------------------------------------------
\* Who carries a fallback
\* ------------------------------------------------------------------

\* C31 -- an entry is pushed with a fallback iff it is pushed for a shortcut
\* that jump_check accepted: the entry of the root, the entries pushed for
\* successors of the root or for successors whose jump was refused, and the
\* entries pushed for a fallback carry none and have the expanded node
\* (the fallback's parent) as stored parent.
C31_FallbackIffShortcut ==
    /\ [](popped.kind = "none" => \A e \in pending : e.fallback = None)
    /\ [][/\ ForStep =>
                \A e \in pending' \ pending :
                    /\ e.fallback # None <=> Unwrap(gen').jump # None
                    /\ cur.p1_index = USIZE_MAX => e.fallback = None
                    /\ Unwrap(gen').jump = None =>
                          visited'[e.index + 1].parent = cur.p0_index
          /\ InvalidStep =>
                \A e \in pending' \ pending :
                    /\ e.fallback = None
                    /\ popped'.entry.fallback # None
                    /\ visited'[e.index + 1].parent
                           = Unwrap(popped'.entry.fallback).parent]_vars

\* a rejected shortcut's fallback has just been pushed, and it is on the
\* frontier without a fallback of its own
C31_Witness ==
    /\ popped.kind = "invalid" /\ popped.pushed # None
    /\ popped.entry.fallback # None
    /\ \E e \in pending :
          /\ e.index = Unwrap(popped.pushed)
          /\ e.cost = Unwrap(popped.entry.fallback).cost
          /\ e.fallback = None

\* ------------------------------------------------------------------
\* find_with_init (pathfind.rs)
\* ------------------------------------------------------------------

\* the values of `initialize`: up to two (node, cost) pairs, the start node
\* and repeated nodes included
InitLists ==
    UNION {[1 .. d -> [node : {start, 1, 2}, mc : Costs]] : d \in 0 .. 2}

\* find_with_init up to its `for`: the root is inserted, nothing is pushed;
\* `todo` holds the entries of `initialize` not yet taken.  successors
\* offers at most one kind of move.
FindWithInit ==
    /\ visited = <<[node |-> start, parent |-> USIZE_MAX, cost |-> 0]>>
    /\ pending = {}
    /\ todo \in InitLists
    /\ pc = IF todo = <<>> THEN "loop" ELSE "init"
    /\ cur = [cost |-> 0, p0_index |-> 0, p1_index |-> USIZE_MAX, p0_cost |-> 0]
    /\ result = None
    /\ moves \in {mv \in MoveSets : Len(mv) <= 1}
    /\ heavy \in Nodes
    /\ validM = {} /\ jumpM = {} /\ costM = {}
    /\ calls = <<>>
    /\ popped = [entry |-> [est |-> 0, cost |-> 0, index |-> 0, fallback |-> None],
                 kind |-> "none", pushed |-> None, commit |-> None]
    /\ edges = <<[kind |-> "root", mc |-> 0, by |-> 0]>>
    /\ gen = None
    /\ tests = <<>>
    /\ kern = KernOff

\* the mutant of InitStep: the entry is registered whatever is_valid_move
\* answers
InitStepUnchecked ==
    /\ pc = "init"
    /\ LET s == Head(todo) IN
       \E v \in Answers(validM, <<start, s.node>>, BOOLEAN) :
       LET h == Heuristic(heavy, s.node)
           r == AddPending(visited, pending, h, 0, s.mc, s.node, None)
       IN  /\ validM' = validM \cup {<<<<start, s.node>>, v>>}
           /\ visited' = r.visited
           /\ pending' = r.pending
           /\ edges' = SetEdge(edges, r, [kind |-> "init", mc |-> s.mc, by |-> 0])
           /\ calls' = calls \o <<Call("is_valid_move", <<start, s.node>>, v)>>
                             \o (IF r.called THEN <<Call("heuristic", <<s.node>>, h)>>
                                 ELSE <<>>)
    /\ todo' = Tail(todo)
    /\ pc' = IF Tail(todo) = <<>> THEN "loop" ELSE "init"
    /\ UNCHANGED <<cur, result, moves, heavy, jumpM, costM, popped, gen, tests, kern>>

\* one turn of `for (node, cost) in initialize`
InitStep ==
    /\ pc = "init"
    /\ LET s == Head(todo) IN
       \E v \in Answers(validM, <<start, s.node>>, BOOLEAN) :
       LET h == Heuristic(heavy, s.node)
           r == IF v THEN AddPending(visited, pending, h, 0, s.mc, s.node, None)
                ELSE [visited |-> visited, pending |-> pending, called |-> FALSE,
                      index |-> None]
       IN  /\ validM' = validM \cup {<<<<start, s.node>>, v>>}
           /\ visited' = r.visited
           /\ pending' = r.pending
           /\ edges' = SetEdge(edges, r, [kind |-> "init", mc |-> s.mc, by |-> 0])
           /\ calls' = calls \o <<Call("is_valid_move", <<start, s.node>>, v)>>
                             \o (IF r.called THEN <<Call("heuristic", <<s.node>>, h)>>
                                 ELSE <<>>)
    /\ todo' = Tail(todo)
    /\ pc' = IF Tail(todo) = <<>> THEN "loop" ELSE "init"
    /\ UNCHANGED <<cur, result, moves, heavy, jumpM, costM, popped, gen, tests, kern>>

WithInitNext ==
    \/ InitStep
    \/ PopStale
    \/ PopInvalid
    \/ PopGoal
    \/ PopExpand
    \/ ExpandStep
    \/ ReturnNone

WithInitSpec == FindWithInit /\ [][WithInitNext]_vars

\* the start node is never pushed, goal-tested or expanded, and a search
\* none of whose initial nodes was valid returns None
StartLeftAlone ==
    /\ \A e \in pending : e.index # 0
    /\ \A k \in 1 .. Len(tests) : tests[k].node # start
    /\ \A k \in 1 .. Len(calls) : calls[k].fn = "successors" => calls[k].args # <<start>>
    /\ (pc = "done" /\ \A x \in validM : x[1][1] = start => ~x[2]) => result = None

\* what a turn of the `for` over initialize registered is an entry with the
\* root as parent, the supplied cost and no fallback
RegisteredFromRoot ==
    pc = "init" =>
        \A e \in pending' \ pending :
            /\ e.cost = Head(todo).mc /\ e.fallback = None
            /\ visited'[e.index + 1]
                   = [node |-> Head(todo).node, parent |-> 0, cost |-> Head(todo).mc]

\* C32 -- find_with_init inserts start at index 0 without pushing it and
\* registers as pending, with the root as parent, the supplied cost and no
\* fallback, exactly the entries of initialize for which
\* is_valid_move(start, node) is true; start is never goal-tested or
\* expanded, and the result is None if no initial node is valid.
C32_InitRegistersValid ==
    /\ [](StartLeftAlone)
    /\ [][/\ RegisteredFromRoot
          /\ pc = "init" =>
                (pending' # pending <=> <<<<start, Head(todo).node>>, TRUE>> \in validM')
         ]_vars

\* C32, amended -- as C32, but an entry of initialize whose node is already
\* in the visited table at a cost lower than or equal to its own (start
\* itself, or a node registered by an earlier entry) is not registered, and
\* one whose node is there at a higher cost replaces it.
C32_InitRegistersCheapest ==
    /\ [](StartLeftAlone)
    /\ [][/\ RegisteredFromRoot
          /\ pc = "init" =>
                /\ pending' # pending <=>
                      /\ <<<<start, Head(todo).node>>, TRUE>> \in validM'
                      /\ \A i \in 1 .. Len(visited) :
                            visited[i].node = Head(todo).node =>
                                Head(todo).mc < visited[i].cost
                /\ pending' = pending => visited' = visited
                /\ pending \subseteq pending'
         ]_vars

\* the `for` over initialize is through: of two initial nodes one was valid
\* and is pending with the root as parent, the other was not and is not in
\* the table
C32_Witness ==
    /\ pc = "loop" /\ popped.kind = "none"
    /\ Len(visited) = 2 /\ Cardinality(pending) = 1
    /\ \E k \in 1 .. Len(calls) : calls[k].fn = "is_valid_move" /\ ~calls[k].ret
    /\ \A e \in pending : visited[e.index + 1].parent = 0 /\ e.fallback = None

\* ------------------------------------------------------------------
\* Invariants of the table and the frontier
\* ------------------------------------------------------------------

InTable(i) == i >= 0 /\ i < Len(visited)

\* C33 -- index validity: the index of every pending entry and the parent
\* index of every fallback is the index of a visited entry, every stored
\* parent index is the sentinel or the index of a visited entry, and so is
\* the index the running iteration looks up unchecked.
C33_IndexValidity ==
    /\ \A e \in pending :
          /\ InTable(e.index)
          /\ e.fallback # None => InTable(Unwrap(e.fallback).parent)
    /\ \A i \in 1 .. Len(visited) :
          visited[i].parent = USIZE_MAX \/ InTable(visited[i].parent)
    /\ InTable(cur.p0_index)
    /\ InTable(popped.entry.index)

\* the table is full, and an entry for a shortcut is pending whose fallback
\* names a parent other than the root
C33_Witness ==
    /\ Len(visited) = NumNodes
    /\ \E e \in pending :
          /\ e.fallback # None /\ Unwrap(e.fallback).parent > 0
          /\ e.index > 0
    /\ \E i \in 1 .. Len(visited) : visited[i].parent \notin {0, USIZE_MAX}

\* C34 -- the cost of every pending entry is at least the cost stored in the
\* table for its index; so an entry that passes the stale check has exactly
\* the stored cost, and the cost find returns is the cost stored for the
\* last node of the path when it returns.
C34_PendingCostAboveStored ==
    /\ \A e \in pending : e.cost >= visited[e.index + 1].cost
    /\ (popped.kind # "none" /\ ~StalePopped) => cur.cost = cur.p0_cost
    /\ Returned =>
          \A i \in IndexOf(visited, Last(ThePath)) : TheCost = visited[i + 1].cost

\* find has returned a path of cost above zero while an entry whose cost is
\* above the stored cost of its node is still pending
C34_Witness ==
    /\ Returned /\ TheCost > 0
    /\ \E e \in pending : e.cost > visited[e.index + 1].cost

\* no node stands at two places of the path
NoRepeat(path) == Cardinality({path[k] : k \in 1 .. Len(path)}) = Len(path)

\* C35 -- (edge costs are never negative) the stored cost of an entry with
\* a parent is at least its parent's stored cost; the root is the only
\* entry with the sentinel as parent; the parent indices lead from every
\* entry to the root without passing an entry twice, so the walk of the
\* reconstruction ends and a returned path repeats no node.
C35_ParentChain ==
    /\ \A i \in 1 .. Len(visited) :
          /\ visited[i].parent = USIZE_MAX <=> i = 1
          /\ visited[i].parent # USIZE_MAX =>
                /\ visited[i].parent < Len(visited)
                /\ visited[i].cost >= visited[visited[i].parent + 1].cost
          /\ WalkEnds(visited, i - 1, Len(visited))
          /\ LET w == Walk(visited, i - 1, Len(visited))
             IN  Last(w) = start /\ NoRepeat(w)
    /\ pc # "hang"
    /\ Returned => NoRepeat(ThePath)

\* a path through every node of the graph has been returned
C35_Witness ==
    Returned /\ Len(ThePath) = NumNodes

\* success has returned false on node n, which was then expanded; n is the
\* root or the move into it had been found valid
Expanded(n) ==
    /\ \E k \in 1 .. Len(tests) : tests[k] = [node |-> n, ret |-> FALSE]
    /\ n # start => \E x \in Nodes : <<<<x, n>>, TRUE>> \in validM

\* C36 -- (find) the stored parent of every entry of the table, and the
\* parent of every fallback, is a node that was popped, passed the
\* validation (or is the root) and was expanded after success returned
\* false on it; so success returned false on every node of a returned path
\* but the last.
C36_ParentsExpanded ==
    /\ \A i \in 1 .. Len(visited) :
          visited[i].parent # USIZE_MAX => Expanded(visited[visited[i].parent + 1].node)
    /\ \A e \in pending :
          e.fallback # None => Expanded(visited[Unwrap(e.fallback).parent + 1].node)
    /\ Returned => \A j \in 1 .. (Len(ThePath) - 1) : Expanded(ThePath[j])

\* a path of three nodes is returned while a fallback is still pending
C36_Witness ==
    /\ Returned /\ Len(ThePath) >= 3
    /\ \E e \in pending : e.fallback # None

\* C37 -- (termination) the nodes, the successor lists and the costs being
\* finite, find returns, Some or None, whatever is_valid_move and success
\* answer: every entry pushed stands for a node new to the table or for a
\* stored cost that became strictly lower, every iteration pops one entry,
\* and the for loop consumes one successor a turn.
C37_FindReturns ==
    /\ <>(pc = "done")
    /\ [][/\ \A e \in pending' \ pending :
                \/ Len(visited') = Len(visited) + 1 /\ e.index = Len(visited)
                \/ /\ Len(visited') = Len(visited)
                   /\ visited'[e.index + 1].cost < visited[e.index + 1].cost
          /\ PopStep => Cardinality(pending \ pending') = 1
          /\ ForStep => Len(todo') = Len(todo) - 1 /\ pending \subseteq pending']_vars

\* find has returned None after every node entered the table, one of them
\* at a cost lowered since
C37_Witness ==
    /\ pc = "done" /\ result = None
    /\ Len(visited) = NumNodes
    /\ popped.kind = "stale"

\* b is a successor of a and is_valid_move has not refused the move
Open(a, b) ==
    /\ \E k \in 1 .. Len(Successors(moves, a)) : Successors(moves, a)[k].node = b
    /\ <<<<a, b>>, FALSE>> \notin validM

\* the nodes a route of at most k such moves leads to from the nodes of S
RECURSIVE ValidReach(_, _)
ValidReach(S, k) ==
    IF k = 0 THEN S
    ELSE ValidReach(S \cup {b \in Nodes : \E a \in S : Open(a, b)}, k - 1)

\* C38 -- (completeness) find returns None only if no route of successor
\* edges that is_valid_move accepts leads from start to a node success
\* accepts: every node such a route leads to has been handed to success and
\* was refused.
C38_NoneOnlyWithoutRoute ==
    (pc = "done" /\ result = None) =>
        \A g \in ValidReach({start}, NumNodes) :
            \E k \in 1 .. Len(tests) : tests[k] = [node |-> g, ret |-> FALSE]

\* is_valid_move has answered true and jump_check has answered with a node
\* at every call so far
NeverRefused ==
    /\ \A m \in validM : m[2]
    /\ \A m \in jumpM : m[2] # "refuse"

\* C39 -- (find) while is_valid_move has always answered true and the jump
\* has never been refused, every entry of the table but the root has the
\* root as its stored parent; a returned path then has at most two nodes,
\* start and the accepted node, and its cost is what movement_cost gave
\* for the jump from start to that node or the move_cost of the successor
\* of start that led to it.
C39_RootIsEveryParent ==
    NeverRefused =>
        /\ \A i \in 2 .. Len(visited) : visited[i].parent = 0
        /\ Returned =>
              /\ Len(ThePath) <= 2
              /\ Len(ThePath) = 1 => ThePath = <<start>> /\ TheCost = 0
              /\ Len(ThePath) = 2 =>
                    /\ ThePath[1] = start
                    /\ \/ <<Distance(start, ThePath[2]), TheCost>> \in costM
                       \/ \E k \in 1 .. Len(Successors(moves, start)) :
                             Successors(moves, start)[k] = [node |-> ThePath[2], mc |-> TheCost]

\* a node first reached from a successor of start is returned as the goal,
\* two nodes in the path, after a jump was taken and nothing was refused
C39_Witness ==
    /\ NeverRefused /\ Returned
    /\ Len(ThePath) = 2
    /\ jumpM # {} /\ validM # {}
    /\ \E i \in 1 .. Len(visited) :
          /\ visited[i].node = ThePath[2]
          /\ edges[i].kind = "shortcut"

====
